---- MODULE Spec2Model ----
(***************************************************************************)
(* Claude Relay Meter: the poller (validate -> resolve id -> fetch with    *)
(* retry -> render) and the settings reconciler (debounced file watch).    *)
(*                                                                         *)
(* Eleven specifications share the variables:                              *)
(*   SpecRetry     fetchRelayStatsWithRetry alone, for every maxRetries    *)
(*                 and initial delay of a bounded set;                     *)
(*   SpecValidate  validateApiConfig on a set of sample strings;           *)
(*   SpecApi       fetchRelayStats and getApiIdFromKey on one response;    *)
(*   Spec          the poller: activation, the settings, refresh cycles;   *)
(*   SpecTimer     the refresh interval timer, the focus and the settings; *)
(*   SpecRace      calls of updateStats side by side;                      *)
(*   SpecWatch     the file watcher and its reconciliation checks;         *)
(*   SpecPrompts   reconciliation checks side by side;                     *)
(*   SpecFaults    the poller and the watcher with everything failing;     *)
(*   SpecReload    the credentials file copied into the settings;          *)
(*   SpecLive      calls of updateStats side by side, with fairness.       *)
(***************************************************************************)
EXTENDS Integers, Sequences, FiniteSets, TLC

VARIABLES
    rs,     \* SpecRetry: the one call of fetchRelayStatsWithRetry under test
    vc,     \* SpecValidate: the input of validateApiConfig and its result;
            \* SpecReload: the reload command in flight
    \* the host and the file system
    settings,           \* the relayMeter.* settings the host stores
    file,               \* the content of ~/.claude/settings.json
    intervals,          \* the live setInterval timers: records [id, period]
    timeouts,           \* the pending setTimeout timers: records [id, left]
    handles,            \* the open fs.FSWatcher handles (ids)
    errorNotes,         \* error notifications of updateStats still on screen
    \* extension.ts
    phase,              \* where activate()/deactivate() stand
    statusBarItem,      \* what the status-bar item shows
    refreshTimer,       \* the interval handle, 0 for undefined
    isWindowFocused,
    cycles,             \* the calls of updateStats in flight, by slot
    \* claudeSettingsWatcher.ts
    fileWatcher,        \* the watch handle, 0 for undefined
    debounceTimer,      \* the timeout handle, 0 for undefined
    refreshCallback,    \* TRUE when set (to updateStats)
    checks,             \* the calls of checkAndHandleConfigChange in flight
    \* what the last step did, and the current burst of file events
    last,
    burst

retryVars == <<rs>>
valVars == <<vc>>
hostVars == <<settings, file, intervals, timeouts, handles, errorNotes>>
extVars == <<phase, statusBarItem, refreshTimer, isWindowFocused, cycles>>
watchVars == <<fileWatcher, debounceTimer, refreshCallback, checks>>
histVars == <<last, burst>>
appVars == <<hostVars, extVars, watchVars, histVars>>
vars == <<rs, vc, appVars>>

(***************************************************************************)
(* Bounds of the model.                                                    *)
(***************************************************************************)
\* the largest maxRetries SpecRetry tries
MaxRetriesN == 4

(***************************************************************************)
(* Small helpers.                                                          *)
(***************************************************************************)
Max(a, b) == IF a >= b THEN a ELSE b

RECURSIVE Pow2(_)
Pow2(k) == IF k <= 0 THEN 1 ELSE 2 * Pow2(k - 1)

RECURSIVE SumSeq(_)
SumSeq(s) == IF s = <<>> THEN 0 ELSE Head(s) + SumSeq(Tail(s))

(***************************************************************************)
(* services/api.ts: the remote call fetchRelayStats.                       *)
(*                                                                         *)
(* A response of the HTTP layer (axios) is a record:                       *)
(*   net      "ok" (a response arrived), "noResponse" (request sent, no    *)
(*            answer: timeout, refused) or "setupError" (request not sent) *)
(*   status   the HTTP status of the response                              *)
(*   hasData  response.data is present                                     *)
(*   success  response.data.success                                        *)
(*   payload  the data                                                     *)
(* axios rejects a response whose status is outside 200..299.              *)
(***************************************************************************)
Payloads == {"p1", "p2"}

Statuses == {200, 204, 500}

Responses ==
    [net : {"ok"}, status : Statuses, hasData : BOOLEAN, success : BOOLEAN,
     payload : Payloads]
    \cup [net : {"noResponse", "setupError"}, status : {0}, hasData : {FALSE},
          success : {FALSE}, payload : {"p1"}]

NoPayload == "none"

\* data of a successful response that lack the fields updateStatusBar reads
MalformedPayload == "malformed"

\* an Error object: its message, as a kind and the status the text embeds
Err(kind, status) == [msg |-> kind, status |-> status]
NoError == Err("undefined", 0)

Returned(p) == [ok |-> TRUE, payload |-> p, err |-> NoError]
Thrown(e) == [ok |-> FALSE, payload |-> NoPayload, err |-> e]

\* axios.post: TRUE when the promise rejects (an AxiosError)
AxiosRejects(resp) ==
    resp.net # "ok" \/ resp.status < 200 \/ resp.status > 299

\* mutant: the status of a response axios accepts is not tested
FetchRelayStatsAnyStatus(resp) ==
    IF AxiosRejects(resp)
    THEN IF resp.net = "ok" THEN Thrown(Err("ServerError", resp.status))
         ELSE IF resp.net = "noResponse" THEN Thrown(Err("NoConnection", 0))
         ELSE Thrown(Err("RequestConfig", 0))
    ELSE IF ~resp.hasData \/ ~resp.success
    THEN Thrown(Err("InvalidData", 0))
    ELSE Returned(resp.payload)

\* fetchRelayStats(apiUrl, apiId), as a function of the response it gets
FetchRelayStats(resp) ==
    IF AxiosRejects(resp)
    THEN \* catch: axios.isAxiosError(error)
         IF resp.net = "ok" THEN Thrown(Err("ServerError", resp.status))
         ELSE IF resp.net = "noResponse" THEN Thrown(Err("NoConnection", 0))
         ELSE Thrown(Err("RequestConfig", 0))
    ELSE IF resp.status # 200
    THEN Thrown(Err("StatusCode", resp.status))      \* rethrown by the catch
    ELSE IF ~resp.hasData \/ ~resp.success
    THEN Thrown(Err("InvalidData", 0))               \* rethrown by the catch
    ELSE Returned(resp.payload)

(***************************************************************************)
(* services/api.ts: fetchRelayStatsWithRetry.                              *)
(*                                                                         *)
(* One call is a record; pc is the place the call is suspended at:         *)
(*   "call"      awaiting fetchRelayStats of attempt `attempt`             *)
(*   "wait"      awaiting the setTimeout of retryDelay ms                  *)
(*   "returned"  returned `result`                                         *)
(*   "thrown"    threw `error`                                             *)
(* nCalls, callIds, waits and outcomes record what the call did: the       *)
(* number of fetchRelayStats calls started and the apiId they were given,  *)
(* the durations of the waits started, and the results of the completed    *)
(* fetchRelayStats calls.                                                  *)
(***************************************************************************)
\* the error thrown after the loop: the attempt count and lastError?.message
ExhaustedError(maxRetries, lastError) ==
    [msg |-> "RetriesExhausted", retries |-> maxRetries, last |-> lastError.msg,
     lastStatus |-> lastError.status]

NoExhausted ==
    [msg |-> "none", retries |-> 0, last |-> "none", lastStatus |-> 0]

\* the head of the for loop: attempt <= maxRetries, else the throw after it
RetryLoopHead(r) ==
    IF r.attempt <= r.maxRetries
    THEN [r EXCEPT !.pc = "call", !.nCalls = @ + 1,
                   !.callIds = @ \cup {r.apiId}]
    ELSE [r EXCEPT !.pc = "thrown",
                   !.error = ExhaustedError(r.maxRetries, r.lastError)]

\* the call fetchRelayStatsWithRetry(apiUrl, apiId, maxRetries, retryDelay)
RetryStart(apiId, maxRetries, retryDelay) ==
    RetryLoopHead(
        [pc |-> "call", apiId |-> apiId, maxRetries |-> maxRetries,
         retryDelay |-> retryDelay, delay0 |-> retryDelay, attempt |-> 1,
         lastError |-> NoError, result |-> NoPayload, error |-> NoExhausted,
         nCalls |-> 0, callIds |-> {}, waits |-> <<>>, outcomes |-> <<>>])

\* mutant: the first error is kept, later ones do not replace it
RetryCatchKeepFirst(r, e) ==
    LET r1 == [r EXCEPT !.lastError = IF @ = NoError THEN e ELSE @]
    IN  IF r1.attempt < r1.maxRetries
        THEN [r1 EXCEPT !.pc = "wait", !.waits = Append(@, r1.retryDelay)]
        ELSE RetryLoopHead([r1 EXCEPT !.attempt = @ + 1])

\* the catch block of attempt r.attempt, which failed with e
RetryCatch(r, e) ==
    LET r1 == [r EXCEPT !.lastError = e]
    IN  IF r1.attempt < r1.maxRetries
        THEN [r1 EXCEPT !.pc = "wait", !.waits = Append(@, r1.retryDelay)]
        ELSE RetryLoopHead([r1 EXCEPT !.attempt = @ + 1])

\* mutant: a successful attempt does not end the loop
RetryCallDoneNoReturn(r, resp) ==
    LET out == FetchRelayStats(resp)
        r1 == [r EXCEPT !.outcomes = Append(@, out)]
    IN  IF out.ok
        THEN RetryLoopHead([r1 EXCEPT !.result = out.payload, !.attempt = @ + 1])
        ELSE RetryCatch(r1, out.err)

\* the awaited fetchRelayStats of the current attempt completes
RetryCallDone(r, resp) ==
    LET out == FetchRelayStats(resp)
        r1 == [r EXCEPT !.outcomes = Append(@, out)]
    IN  IF out.ok
        THEN [r1 EXCEPT !.pc = "returned", !.result = out.payload]
        ELSE RetryCatch(r1, out.err)

\* mutant: the delay is not doubled
RetryWaitDoneFlat(r) ==
    RetryLoopHead([r EXCEPT !.attempt = @ + 1])

\* the awaited setTimeout elapses: retryDelay *= 2, attempt++
RetryWaitDone(r) ==
    RetryLoopHead([r EXCEPT !.retryDelay = @ * 2, !.attempt = @ + 1])

RetryFinished(r) == r.pc \in {"returned", "thrown"}

\* the defaults of maxRetries and retryDelay, which updateStats also passes
DefaultMaxRetries == 3
DefaultRetryDelay == 1000

(***************************************************************************)
(* Strings.  A string is a sequence of one-character strings, so that      *)
(* trim(), new URL() and the UUID regular expression are computed on the   *)
(* characters.  Undefined is the value of an omitted optional argument.    *)
(***************************************************************************)
Undefined == <<"undefined">>

Rep(c, n) == [i \in 1..n |-> c]

IsSpace(c) == c \in {" ", "\t"}

IsAlpha(c) ==
    c \in {"a", "b", "c", "d", "e", "f", "g", "h", "k", "p", "s", "t", "x",
           "A", "B", "F", "H", "P", "S", "T"}

IsDigit(c) == c \in {"0", "1", "2", "3", "4", "5", "6", "7", "8", "9"}

IsHex(c) ==
    IsDigit(c) \/ c \in {"a", "b", "c", "d", "e", "f", "A", "B", "C", "D", "E", "F"}

\* String.prototype.toLowerCase on the letters the samples use
Lower(c) ==
    CASE c = "A" -> "a" [] c = "B" -> "b" [] c = "F" -> "f" [] c = "H" -> "h"
      [] c = "P" -> "p" [] c = "S" -> "s" [] c = "T" -> "t" [] OTHER -> c

LowerStr(s) == [i \in 1..Len(s) |-> Lower(s[i])]

RECURSIVE TrimLeft(_)
TrimLeft(s) ==
    IF s # <<>> /\ IsSpace(Head(s)) THEN TrimLeft(Tail(s)) ELSE s

RECURSIVE TrimRight(_)
TrimRight(s) ==
    IF s # <<>> /\ IsSpace(s[Len(s)])
    THEN TrimRight(SubSeq(s, 1, Len(s) - 1)) ELSE s

\* String.prototype.trim
Trim(s) == TrimRight(TrimLeft(s))

\* String.prototype.startsWith
StartsWith(s, prefix) ==
    Len(s) >= Len(prefix) /\ SubSeq(s, 1, Len(prefix)) = prefix

\* the index of the first element of s that is in set cs, or Len(s) + 1
RECURSIVE FirstIn(_, _, _)
FirstIn(s, cs, i) ==
    IF i > Len(s) THEN i
    ELSE IF s[i] \in cs THEN i ELSE FirstIn(s, cs, i + 1)

RECURSIVE SkipSlashes(_)
SkipSlashes(s) ==
    IF s # <<>> /\ Head(s) \in {"/", "\\"} THEN SkipSlashes(Tail(s)) ELSE s

SpecialSchemes ==
    { <<"h","t","t","p">>, <<"h","t","t","p","s">>, <<"f","t","p">>,
      <<"w","s">>, <<"w","s","s">> }

NoUrl == [ok |-> FALSE, protocol |-> <<>>]

(***************************************************************************)
(* new URL(input), without a base, of the WHATWG URL standard, on strings  *)
(* without credentials, ports and IP literals: leading and trailing spaces *)
(* are stripped; a scheme (a letter, then letters, digits, + - .) and a    *)
(* ":" are required; the scheme is lower-cased; a special scheme needs a   *)
(* non-empty host, found after any number of slashes; a host holds no      *)
(* space.  protocol is the scheme with its ":".                            *)
(***************************************************************************)
ParseURL(input) ==
    LET s == Trim(input)
        colon == FirstIn(s, {":"}, 1)
        scheme == LowerStr(SubSeq(s, 1, colon - 1))
        rest == SubSeq(s, colon + 1, Len(s))
        schemeOk ==
            /\ colon <= Len(s)
            /\ colon >= 2
            /\ IsAlpha(s[1])
            /\ \A i \in 1..(colon - 1) :
                  IsAlpha(s[i]) \/ IsDigit(s[i]) \/ s[i] \in {"+", "-", "."}
        special == scheme \in SpecialSchemes
        auth == IF special THEN SkipSlashes(rest)
                ELSE IF StartsWith(rest, <<"/", "/">>) THEN SubSeq(rest, 3, Len(rest))
                ELSE <<>>
        host == SubSeq(auth, 1, FirstIn(auth, {"/", "?", "#"}, 1) - 1)
        hostOk ==
            /\ special => host # <<>>
            /\ \A i \in 1..Len(host) : ~IsSpace(host[i])
    IN  IF schemeOk /\ hostOk
        THEN [ok |-> TRUE, protocol |-> Append(scheme, ":")]
        ELSE NoUrl

\* the groups of /^[0-9a-f]{8}-[0-9a-f]{4}-[0-9a-f]{4}-[0-9a-f]{4}-[0-9a-f]{12}$/i
UuidGroups == <<8, 4, 4, 4, 12>>

RECURSIVE MatchGroups(_, _)
MatchGroups(s, groups) ==
    LET g == Head(groups)
    IN  /\ Len(s) >= g
        /\ \A i \in 1..g : IsHex(s[i])
        /\ IF Len(groups) = 1 THEN Len(s) = g
           ELSE /\ Len(s) > g
                /\ s[g + 1] = "-"
                /\ MatchGroups(SubSeq(s, g + 2, Len(s)), Tail(groups))

\* uuidRegex.test(apiId)
UuidRegexTest(s) == MatchGroups(s, UuidGroups)

(***************************************************************************)
(* services/api.ts: validateApiConfig.                                     *)
(***************************************************************************)
\* !s || s.trim() === ''
Missing(s) == s = Undefined \/ s = <<>> \/ Trim(s) = <<>>

Invalid(message, missingConfig) ==
    [valid |-> FALSE, message |-> message, missingConfig |-> missingConfig]

Valid == [valid |-> TRUE, message |-> "none", missingConfig |-> "none"]

\* mutant: an absent URL is always reported as 'apiUrl'
ValidateApiConfigUrlOnly(apiUrl, apiId, apiKey) ==
    IF Missing(apiUrl) THEN Invalid("UrlEmpty", "apiUrl")
    ELSE IF ~ParseURL(apiUrl).ok THEN Invalid("UrlFormat", "apiUrl")
    ELSE IF Missing(apiId) /\ Missing(apiKey) THEN Invalid("IdOrKeyMissing", "apiId")
    ELSE IF ~Missing(apiId) /\ ~UuidRegexTest(apiId) THEN Invalid("IdFormat", "apiId")
    ELSE Valid

\* validateApiConfig(apiUrl, apiId, apiKey)
ValidateApiConfig(apiUrl, apiId, apiKey) ==
    LET urlMissing == Missing(apiUrl)
        idMissing == Missing(apiId)
        keyMissing == Missing(apiKey)
        url == ParseURL(apiUrl)
    IN  IF urlMissing
        THEN IF idMissing /\ keyMissing
             THEN Invalid("BothMissing", "both")
             ELSE Invalid("UrlEmpty", "apiUrl")
        ELSE IF ~url.ok
        THEN Invalid("UrlFormat", "apiUrl")          \* new URL threw
        ELSE IF ~StartsWith(url.protocol, <<"h","t","t","p">>)
        THEN Invalid("UrlNotHttp", "apiUrl")
        ELSE IF idMissing /\ keyMissing
        THEN Invalid("IdOrKeyMissing", "apiId")
        ELSE IF ~idMissing /\ ~UuidRegexTest(apiId)
        THEN Invalid("IdFormat", "apiId")
        ELSE Valid

(***************************************************************************)
(* Sample strings: URLs, API ids and API keys.                             *)
(***************************************************************************)
UrlHttps == <<"h","t","t","p","s",":","/","/","h">>
UrlHttp == <<"h","t","t","p",":","/","/","h">>
UrlHttpx == <<"h","t","t","p","x",":","/","/","h">>
UrlFtp == <<"f","t","p",":","/","/","h">>

SampleUrls ==
    { <<>>, <<" ", " ">>, <<"\t">>,
      UrlHttps, UrlHttp, UrlHttpx, UrlFtp,
      <<" ">> \o UrlHttps \o <<" ">>,                  \* padded with spaces
      <<"H","T","T","P","S",":","/","/","h">>,         \* upper-case scheme
      <<"h","t","t","p",":","h">>,                     \* no slashes
      <<"h","t","t","p","s",":","/","/">>,             \* no host
      <<"h","t","t","p",":","/","/","h"," ","h">>,     \* a space in the host
      <<"h">>,                                         \* no scheme
      <<"/","/","h">>,
      <<"1","h",":","/","/","h">> }                    \* no letter first

IdUuid ==
    Rep("a", 8) \o <<"-">> \o Rep("0", 4) \o <<"-">> \o Rep("f", 4) \o <<"-">>
        \o Rep("9", 4) \o <<"-">> \o Rep("b", 12)
IdUuidUpper ==
    Rep("A", 8) \o <<"-">> \o Rep("0", 4) \o <<"-">> \o Rep("F", 4) \o <<"-">>
        \o Rep("9", 4) \o <<"-">> \o Rep("B", 12)

SampleIds ==
    { <<>>, <<" ">>, IdUuid, IdUuidUpper,
      <<" ">> \o IdUuid,                               \* a leading space
      IdUuid \o <<"0">>,                               \* one digit too many
      SubSeq(IdUuid, 1, 35),                           \* one digit short
      [IdUuid EXCEPT ![3] = "g"],                      \* not a hex digit
      [IdUuid EXCEPT ![9] = "0"],                      \* a dash missing
      <<"x">> }

KeySk1 == <<"s", "k", "-", "1">>

SampleKeys == { Undefined, <<>>, <<" ", "\t">>, KeySk1, <<"x">> }

(***************************************************************************)
(* Bounds of the extension's model.                                        *)
(***************************************************************************)
\* the calls of updateStats that may be in flight at once
MaxCycles == 1
\* the reconciliation checks that may be in flight at once
MaxChecks == 1
\* the error notifications kept on screen (more are counted as this many)
MaxNotes == 1

Min(a, b) == IF a <= b THEN a ELSE b

\* a handle no live timer or watcher has
FreshId(used) == CHOOSE i \in 1..(Cardinality(used) + 1) : i \notin used

(***************************************************************************)
(* The host's settings (vscode.workspace.getConfiguration('relayMeter'))   *)
(* and extension.ts: getConfiguration.  refreshInterval is <<>> when unset *)
(* and <<n>> when set to n seconds.                                        *)
(***************************************************************************)
DefaultRefreshInterval == 60
MinRefreshInterval == 10

\* mutant: the refresh interval is read without the floor
GetConfigurationNoFloor(st) ==
    [apiUrl |-> st.apiUrl, apiId |-> st.apiId, apiKey |-> st.apiKey,
     refreshInterval |->
        IF st.refreshInterval = <<>> THEN DefaultRefreshInterval
        ELSE st.refreshInterval[1]]

\* getConfiguration()
GetConfiguration(st) ==
    [apiUrl |-> st.apiUrl, apiId |-> st.apiId, apiKey |-> st.apiKey,
     refreshInterval |->
        Max(IF st.refreshInterval = <<>> THEN DefaultRefreshInterval
            ELSE st.refreshInterval[1], MinRefreshInterval)]

(***************************************************************************)
(* handlers/statusBar.ts: what the status-bar item shows.                  *)
(*   kind     "initializing", "loading", "data", "error" or "prompt"       *)
(*   missing  the field the configuration prompt names                     *)
(*   data     the payload rendered                                         *)
(*   command  the command a click runs                                     *)
(***************************************************************************)
\* createStatusBarItem(), and the text activate() gives it
CreateStatusBarItem ==
    [kind |-> "initializing", missing |-> "none", data |-> NoPayload,
     command |-> "refreshStats"]

\* showConfigPrompt(statusBarItem, missingConfig)
ShowConfigPrompt(sb, missingConfig) ==
    [sb EXCEPT !.kind = "prompt",
               !.missing = IF missingConfig \in {"apiUrl", "apiId"}
                           THEN missingConfig ELSE "both",
               !.data = NoPayload,
               !.command = "openSettings"]

\* showLoadingStatus(statusBarItem)
ShowLoadingStatus(sb) ==
    [sb EXCEPT !.kind = "loading", !.missing = "none", !.data = NoPayload]

\* showErrorStatus(statusBarItem, message)
ShowErrorStatus(sb) ==
    [sb EXCEPT !.kind = "error", !.missing = "none", !.data = NoPayload]

\* mutant: updateStatusBar leaves the text of the status bar as it is
UpdateStatusBarKeepKind(sb, payload) == [sb EXCEPT !.data = payload]

\* updateStatusBar(statusBarItem, data, apiUrl, apiId)
UpdateStatusBar(sb, payload) ==
    [sb EXCEPT !.kind = "data", !.missing = "none", !.data = payload]

(***************************************************************************)
(* services/api.ts: getApiIdFromKey.  The response carries id, the value   *)
(* of response.data.data.id (<<>> when absent).                            *)
(***************************************************************************)
IdResolved == IdUuidUpper

IdReturned(id) == [ok |-> TRUE, id |-> id, err |-> NoError]
IdThrown(e) == [ok |-> FALSE, id |-> <<>>, err |-> e]

\* getApiIdFromKey(apiUrl, apiKey), as a function of the response it gets
GetApiIdFromKey(resp) ==
    IF AxiosRejects(resp)
    THEN IF resp.net = "ok" THEN IdThrown(Err("KeyServerError", resp.status))
         ELSE IF resp.net = "noResponse" THEN IdThrown(Err("NoConnection", 0))
         ELSE IdThrown(Err("RequestConfig", 0))
    ELSE IF resp.status # 200
    THEN IdThrown(Err("KeyStatusCode", resp.status))
    ELSE IF ~resp.hasData \/ ~resp.success \/ resp.id = <<>>
    THEN IdThrown(Err("KeyInvalidData", 0))
    ELSE IdReturned(resp.id)

(***************************************************************************)
(* extension.ts: updateStats.  A call in flight is a record:               *)
(*   pc           "resolve" (awaiting getApiIdFromKey) or "fetch"          *)
(*                (awaiting fetchRelayStatsWithRetry, whose state is       *)
(*                retry); a finished call has "rendered" or "failed"       *)
(*   awaited      activate() awaits it                                     *)
(*   apiUrl, apiId, apiKey   the configuration it read when it began       *)
(*   actualApiId  the id it fetches with                                   *)
(*   nResolve     the calls of getApiIdFromKey it made                     *)
(*   joined       another call was in flight when it began (for the claims)*)
(***************************************************************************)
NoCycle == [pc |-> "free"]

NoRetry == [pc |-> "none", nCalls |-> 0, callIds |-> {}]

\* mutant: the key is resolved whenever one is set
NeedsResolveKeyFirst(apiId, apiKey) == apiKey # <<>> /\ Trim(apiKey) # <<>>

\* the condition under which updateStats resolves the id from the key
NeedsResolve(apiId, apiKey) ==
    (apiId = <<>> \/ Trim(apiId) = <<>>) /\ apiKey # <<>> /\ Trim(apiKey) # <<>>

\* mutant: the validation gate is skipped
UpdateStatsNoGate(sb, config, by, validation) ==
    LET c0 == [pc |-> "fetch", awaited |-> (by = "activate"),
               apiUrl |-> config.apiUrl, apiId |-> config.apiId,
               apiKey |-> config.apiKey, actualApiId |-> config.apiId,
               nResolve |-> 0, retry |-> NoRetry, joined |-> FALSE]
    IN  IF NeedsResolve(config.apiId, config.apiKey)
        THEN [statusBar |-> sb,
              cycle |-> [c0 EXCEPT !.pc = "resolve", !.nResolve = 1],
              began |-> "resolve", missing |-> "none", sent |-> {"resolve"}]
        ELSE [statusBar |-> ShowLoadingStatus(sb),
              cycle |-> [c0 EXCEPT !.retry =
                            RetryStart(config.apiId, DefaultMaxRetries,
                                       DefaultRetryDelay)],
              began |-> "fetch", missing |-> "none", sent |-> {"stats"}]

\* updateStats(), from the test of the validation result up to its first
\* await
UpdateStatsValidated(sb, config, by, validation) ==
    LET c0 == [pc |-> "fetch", awaited |-> (by = "activate"),
               apiUrl |-> config.apiUrl, apiId |-> config.apiId,
               apiKey |-> config.apiKey, actualApiId |-> config.apiId,
               nResolve |-> 0, retry |-> NoRetry, joined |-> FALSE]
    IN  IF ~validation.valid
        THEN [statusBar |-> ShowConfigPrompt(sb, validation.missingConfig),
              cycle |-> NoCycle, began |-> "invalid",
              missing |-> validation.missingConfig, sent |-> {}]
        ELSE IF NeedsResolve(config.apiId, config.apiKey)
        THEN [statusBar |-> sb,
              cycle |-> [c0 EXCEPT !.pc = "resolve", !.nResolve = 1],
              began |-> "resolve", missing |-> "none", sent |-> {"resolve"}]
        ELSE [statusBar |-> ShowLoadingStatus(sb),
              cycle |-> [c0 EXCEPT !.retry =
                            RetryStart(config.apiId, DefaultMaxRetries,
                                       DefaultRetryDelay)],
              began |-> "fetch", missing |-> "none", sent |-> {"stats"}]

\* updateStats(), from the validation of the configuration it read
UpdateStatsConfigured(sb, config, by) ==
    UpdateStatsValidated(sb, config, by,
        ValidateApiConfig(config.apiUrl, config.apiId, config.apiKey))

\* updateStats(), up to its first await
UpdateStats(sb, st, by) == UpdateStatsConfigured(sb, GetConfiguration(st), by)

\* mutant: the catch block of updateStats shows nothing
UpdateStatsCatchSilent(sb, c, e) ==
    [statusBar |-> sb, cycle |-> [c EXCEPT !.pc = "failed"],
     error |-> e, notified |-> FALSE, sent |-> {}]

\* the catch block of updateStats: the error status and a notification
UpdateStatsCatch(sb, c, e) ==
    [statusBar |-> ShowErrorStatus(sb),
     cycle |-> [c EXCEPT !.pc = "failed"],
     error |-> e, notified |-> TRUE, sent |-> {}]

\* mutant: the fetch is given the configured apiId, not the resolved one
UpdateStatsResolvedStale(sb, c, resp) ==
    LET got == GetApiIdFromKey(resp)
    IN  IF got.ok
        THEN [statusBar |-> ShowLoadingStatus(sb),
              cycle |-> [c EXCEPT !.pc = "fetch", !.actualApiId = got.id,
                                  !.retry = RetryStart(c.apiId, DefaultMaxRetries,
                                                       DefaultRetryDelay)],
              error |-> NoError.msg, notified |-> FALSE, sent |-> {"stats"}]
        ELSE UpdateStatsCatch(sb, c, "ResolveFailed")

\* mutant: a failed resolution of the id is tried once more
UpdateStatsResolvedRetry(sb, c, resp) ==
    LET got == GetApiIdFromKey(resp)
    IN  IF got.ok
        THEN [statusBar |-> ShowLoadingStatus(sb),
              cycle |-> [c EXCEPT !.pc = "fetch", !.actualApiId = got.id,
                                  !.retry = RetryStart(got.id, DefaultMaxRetries,
                                                       DefaultRetryDelay)],
              error |-> NoError.msg, notified |-> FALSE, sent |-> {"stats"}]
        ELSE IF c.nResolve < 2
        THEN [statusBar |-> sb, cycle |-> [c EXCEPT !.nResolve = @ + 1],
              error |-> NoError.msg, notified |-> FALSE, sent |-> {"resolve"}]
        ELSE UpdateStatsCatch(sb, c, "ResolveFailed")

\* updateStats, resumed when getApiIdFromKey settles
UpdateStatsResolved(sb, c, resp) ==
    LET got == GetApiIdFromKey(resp)
    IN  IF got.ok
        THEN [statusBar |-> ShowLoadingStatus(sb),
              cycle |-> [c EXCEPT !.pc = "fetch", !.actualApiId = got.id,
                                  !.retry = RetryStart(got.id, DefaultMaxRetries,
                                                       DefaultRetryDelay)],
              error |-> NoError.msg, notified |-> FALSE, sent |-> {"stats"}]
        ELSE UpdateStatsCatch(sb, c, "ResolveFailed")

\* updateStats, resumed when a fetchRelayStats call of the retry loop
\* settles; updateStatusBar throws on data it cannot read, into the catch
\* block of updateStats
UpdateStatsFetched(sb, c, resp) ==
    LET r == RetryCallDone(c.retry, resp)
    IN  IF r.pc = "returned"
        THEN IF r.result = MalformedPayload
             THEN UpdateStatsCatch(sb, [c EXCEPT !.retry = r], "RenderFailed")
             ELSE [statusBar |-> UpdateStatusBar(sb, r.result),
                   cycle |-> [c EXCEPT !.pc = "rendered", !.retry = r],
                   error |-> NoError.msg, notified |-> FALSE, sent |-> {}]
        ELSE IF r.pc = "thrown"
        THEN UpdateStatsCatch(sb, [c EXCEPT !.retry = r], r.error.msg)
        ELSE [statusBar |-> sb, cycle |-> [c EXCEPT !.retry = r],
              error |-> NoError.msg, notified |-> FALSE,
              sent |-> IF r.pc = "call" THEN {"stats"} ELSE {}]

\* updateStats, resumed inside the retry loop when the backoff wait elapses
UpdateStatsWaited(sb, c) ==
    LET r == RetryWaitDone(c.retry)
    IN  IF r.pc = "thrown"
        THEN UpdateStatsCatch(sb, [c EXCEPT !.retry = r], r.error.msg)
        ELSE [statusBar |-> sb, cycle |-> [c EXCEPT !.retry = r],
              error |-> NoError.msg, notified |-> FALSE,
              sent |-> IF r.pc = "call" THEN {"stats"} ELSE {}]

CycleFinished(c) == c.pc \in {"rendered", "failed"}

(***************************************************************************)
(* extension.ts: the refresh interval timer.                               *)
(***************************************************************************)
\* stopRefreshTimer()
StopRefreshTimer(rt, ivs) ==
    IF rt # 0
    THEN [refreshTimer |-> 0, intervals |-> {t \in ivs : t.id # rt}]
    ELSE [refreshTimer |-> rt, intervals |-> ivs]

\* mutant: the existing interval is not cleared
StartRefreshTimerNoStop(rt, ivs, st) ==
    LET id == FreshId({t.id : t \in ivs})
    IN  [refreshTimer |-> id,
         intervals |-> ivs \cup
            {[id |-> id, period |-> GetConfiguration(st).refreshInterval * 1000]}]

\* startRefreshTimer()
StartRefreshTimer(rt, ivs, st) ==
    LET stopped == StopRefreshTimer(rt, ivs)
        id == FreshId({t.id : t \in stopped.intervals})
    IN  [refreshTimer |-> id,
         intervals |-> stopped.intervals \cup
            {[id |-> id, period |-> GetConfiguration(st).refreshInterval * 1000]}]

(***************************************************************************)
(* utils/claudeSettingsWatcher.ts: the watch handle and the debounce       *)
(* timer.  The module's variables and the host's timers and handles are    *)
(* passed as one record w.                                                 *)
(***************************************************************************)
DEBOUNCE_DELAY == 300

FileAbsent == [exists |-> FALSE, apiKey |-> <<>>, apiUrl |-> <<>>]

WatcherNow ==
    [fileWatcher |-> fileWatcher, debounceTimer |-> debounceTimer,
     refreshCallback |-> refreshCallback, handles |-> handles,
     timeouts |-> timeouts, shown |-> "none"]

\* mutant: the pending debounce timer is not cancelled
StopWatchingKeepTimer(w) ==
    IF w.fileWatcher # 0
    THEN [w EXCEPT !.handles = @ \ {w.fileWatcher}, !.fileWatcher = 0]
    ELSE w

\* mutant: stopWatching clears the debounce timeout and leaves the handle
StopWatchingKeepHandle(w) ==
    IF w.debounceTimer # 0
    THEN [w EXCEPT !.timeouts = {t \in @ : t.id # w.debounceTimer},
                   !.debounceTimer = 0]
    ELSE w

\* stopWatching()
StopWatching(w) ==
    LET w1 == IF w.fileWatcher # 0
              THEN [w EXCEPT !.handles = @ \ {w.fileWatcher}, !.fileWatcher = 0]
              ELSE w
    IN  IF w1.debounceTimer # 0
        THEN [w1 EXCEPT !.timeouts = {t \in @ : t.id # w1.debounceTimer},
                        !.debounceTimer = 0]
        ELSE w1

\* mutant: the restart closes the open handle and leaves the debounce
\* timeout pending
StartWatchingKeepDebounce(w, f, watchThrows) ==
    LET w1 == [w EXCEPT !.refreshCallback = TRUE]
        w2 == IF w1.fileWatcher # 0 THEN StopWatchingKeepTimer(w1) ELSE w1
        h == FreshId(w2.handles)
    IN  IF ~f.exists THEN [w2 EXCEPT !.shown = "warning"]
        ELSE IF watchThrows THEN [w2 EXCEPT !.shown = "error"]
        ELSE [w2 EXCEPT !.fileWatcher = h, !.handles = @ \cup {h}]

\* mutant: an open handle is not closed before the new one is opened
StartWatchingNoStop(w, f, watchThrows) ==
    LET w2 == [w EXCEPT !.refreshCallback = TRUE]
        h == FreshId(w2.handles)
    IN  IF ~f.exists THEN [w2 EXCEPT !.shown = "warning"]
        ELSE IF watchThrows THEN [w2 EXCEPT !.shown = "error"]
        ELSE [w2 EXCEPT !.fileWatcher = h, !.handles = @ \cup {h}]

\* startWatching(onRefresh); watchThrows: fs.watch throws.  shown is the
\* message it shows when no handle is opened
StartWatching(w, f, watchThrows) ==
    LET w1 == [w EXCEPT !.refreshCallback = TRUE]
        w2 == IF w1.fileWatcher # 0 THEN StopWatching(w1) ELSE w1
        h == FreshId(w2.handles)
    IN  IF ~f.exists THEN [w2 EXCEPT !.shown = "warning"]
        ELSE IF watchThrows THEN [w2 EXCEPT !.shown = "error"]
        ELSE [w2 EXCEPT !.fileWatcher = h, !.handles = @ \cup {h}]

\* mutant: the pending timer is not cleared
HandleFileChangeNoClear(w) ==
    LET id == FreshId({t.id : t \in w.timeouts} \cup {w.debounceTimer})
    IN  [w EXCEPT !.timeouts = @ \cup {[id |-> id, left |-> DEBOUNCE_DELAY]},
                  !.debounceTimer = id]

\* mutant: an event leaves a pending timer running
HandleFileChangeKeepFirst(w) ==
    LET id == FreshId({t.id : t \in w.timeouts})
    IN  IF \E t \in w.timeouts : t.id = w.debounceTimer
        THEN w
        ELSE [w EXCEPT !.timeouts = @ \cup {[id |-> id, left |-> DEBOUNCE_DELAY]},
                       !.debounceTimer = id]

\* handleFileChange()
HandleFileChange(w) ==
    LET cleared == {t \in w.timeouts : t.id # w.debounceTimer}
        id == FreshId({t.id : t \in cleared})
    IN  [w EXCEPT !.timeouts = cleared \cup {[id |-> id, left |-> DEBOUNCE_DELAY]},
                  !.debounceTimer = id]

\* isWatching()
IsWatching == fileWatcher # 0

(***************************************************************************)
(* utils/configManager.ts and utils/claudeSettingsReader.ts.               *)
(***************************************************************************)
\* readClaudeSettings(): the apiKey and apiUrl of the file, <<>> when absent
ReadClaudeSettings(f) ==
    IF f.exists THEN [apiKey |-> f.apiKey, apiUrl |-> f.apiUrl]
    ELSE [apiKey |-> <<>>, apiUrl |-> <<>>]

\* getVSCodeConfig(): the active credentials
GetVSCodeConfig(st) == [apiKey |-> st.apiKey, apiUrl |-> st.apiUrl]

\* compareConfigs(a, b): field-by-field string equality
CompareConfigs(a, b) == a.apiKey = b.apiKey /\ a.apiUrl = b.apiUrl

\* hasConfig(): the values it may return: TRUE with both credentials set,
\* FALSE with neither, either value with one of them
HasConfig(st) ==
    IF st.apiKey # <<>> /\ st.apiUrl # <<>> THEN {TRUE}
    ELSE IF st.apiKey = <<>> /\ st.apiUrl = <<>> THEN {FALSE}
    ELSE BOOLEAN

\* updateVSCodeConfig(apiKey, apiUrl), once the host has stored the values
UpdateVSCodeConfig(st, apiKey, apiUrl) ==
    [st EXCEPT !.apiKey = apiKey, !.apiUrl = apiUrl]

\* setWatchEnabled(enabled), once the host has stored the value
SetWatchEnabled(st, enabled) == [st EXCEPT !.watchClaudeSettings = enabled]

\* isWatchEnabled()
IsWatchEnabled(st) == st.watchClaudeSettings

(***************************************************************************)
(* utils/claudeSettingsWatcher.ts: checkAndHandleConfigChange.  A check in *)
(* flight is a record: pc is "prompt" (awaiting the user's answer to the   *)
(* reconciliation prompt), "applyWrite" / "disableWrite" (awaiting the     *)
(* settings write of applyNewConfig / disableWatching), "applyResume" /    *)
(* "disableResume" (the write is stored, the function not yet resumed).    *)
(***************************************************************************)
NoCheck == [pc |-> "free"]

\* the places where a run of checkAndHandleConfigChange may meet an error:
\* in readClaudeSettings ("read"), or in getVSCodeConfig or compareConfigs
\* ("compare")
CheckThrows == {"none", "read", "compare"}

\* the catch block of checkAndHandleConfigChange: the error is logged
CheckCaught == [checked |-> "error", check |-> NoCheck, rejected |-> FALSE]

\* checkAndHandleConfigChange awaits the prompt for newConfig
CheckPrompts(newConfig) ==
    [checked |-> "prompt",
     check |-> [pc |-> "prompt", apiKey |-> newConfig.apiKey,
                apiUrl |-> newConfig.apiUrl, answer |-> "pending"],
     rejected |-> FALSE]

\* checkAndHandleConfigChange returns without a prompt
CheckReturns(checked) == [checked |-> checked, check |-> NoCheck, rejected |-> FALSE]

\* mutant: a file with one credential only is compared and prompted for
CheckAndHandleConfigChangeLax(f, st, thrown) ==
    LET claudeSettings == ReadClaudeSettings(f)
        newConfig == [apiKey |-> claudeSettings.apiKey,
                      apiUrl |-> claudeSettings.apiUrl]
    IN  IF thrown = "read" THEN CheckCaught
        ELSE IF claudeSettings.apiKey = <<>> /\ claudeSettings.apiUrl = <<>>
        THEN CheckReturns("incomplete")
        ELSE IF thrown = "compare" THEN CheckCaught
        ELSE IF CompareConfigs(newConfig, GetVSCodeConfig(st))
        THEN CheckReturns("same")
        ELSE CheckPrompts(newConfig)

\* mutant: the prompt is shown without comparing
CheckAndHandleConfigChangeAlways(f, st, thrown) ==
    LET claudeSettings == ReadClaudeSettings(f)
        newConfig == [apiKey |-> claudeSettings.apiKey,
                      apiUrl |-> claudeSettings.apiUrl]
    IN  IF thrown = "read" THEN CheckCaught
        ELSE IF claudeSettings.apiKey = <<>> \/ claudeSettings.apiUrl = <<>>
        THEN CheckReturns("incomplete")
        ELSE IF thrown = "compare" THEN CheckCaught
        ELSE CheckPrompts(newConfig)

\* mutant: no catch block, an error rejects the promise
CheckAndHandleConfigChangeNoCatch(f, st, thrown) ==
    LET claudeSettings == ReadClaudeSettings(f)
        newConfig == [apiKey |-> claudeSettings.apiKey,
                      apiUrl |-> claudeSettings.apiUrl]
    IN  IF thrown = "read" THEN [CheckCaught EXCEPT !.rejected = TRUE]
        ELSE IF claudeSettings.apiKey = <<>> \/ claudeSettings.apiUrl = <<>>
        THEN CheckReturns("incomplete")
        ELSE IF thrown = "compare" THEN [CheckCaught EXCEPT !.rejected = TRUE]
        ELSE IF CompareConfigs(newConfig, GetVSCodeConfig(st))
        THEN CheckReturns("same")
        ELSE CheckPrompts(newConfig)

\* checkAndHandleConfigChange(), up to the await of the prompt; thrown is
\* the place where an error is raised, if any
CheckAndHandleConfigChange(f, st, thrown) ==
    LET claudeSettings == ReadClaudeSettings(f)
        newConfig == [apiKey |-> claudeSettings.apiKey,
                      apiUrl |-> claudeSettings.apiUrl]
    IN  IF thrown = "read" THEN CheckCaught
        ELSE IF claudeSettings.apiKey = <<>> \/ claudeSettings.apiUrl = <<>>
        THEN CheckReturns("incomplete")
        ELSE IF thrown = "compare" THEN CheckCaught
        ELSE IF CompareConfigs(newConfig, GetVSCodeConfig(st))
        THEN CheckReturns("same")
        ELSE CheckPrompts(newConfig)

\* the answers to the reconciliation prompt; "none" is a dismissal
PromptChoices == {"useNew", "keepCurrent", "openSettings", "none"}

\* mutant: choosing "keep current" does nothing more
PromptUserChoiceKeepOnly(k, choice) ==
    IF choice = "useNew" THEN [k EXCEPT !.pc = "applyWrite", !.answer = choice]
    ELSE IF choice = "none"
    THEN [k EXCEPT !.pc = "disableWrite", !.answer = choice]
    ELSE NoCheck

\* promptUserChoice, resumed with the user's choice (answer in the record)
PromptUserChoice(k, choice) ==
    IF choice = "useNew" THEN [k EXCEPT !.pc = "applyWrite", !.answer = choice]
    ELSE IF choice = "none" \/ choice = "keepCurrent"
    THEN [k EXCEPT !.pc = "disableWrite", !.answer = choice]
    ELSE NoCheck

\* mutant: the catch block of applyNewConfig is missing: the function goes on
\* after a failed write
ApplyNewConfigSettledLax(k, ok) ==
    [check |-> [k EXCEPT !.pc = "applyResume"], shown |-> "none"]

\* applyNewConfig, when the write of updateVSCodeConfig settles: it goes on
\* when the write is stored, and shows an error message when it failed
ApplyNewConfigSettled(k, ok) ==
    IF ok THEN [check |-> [k EXCEPT !.pc = "applyResume"], shown |-> "none"]
    ELSE [check |-> NoCheck, shown |-> "error"]

\* disableWatching, when the write of setWatchEnabled(false) settles: it
\* goes on when the write is stored; a failure is logged
DisableWatchingSettled(k, ok) ==
    IF ok THEN [k EXCEPT !.pc = "disableResume"] ELSE NoCheck

(***************************************************************************)
(* What the last step did (for the claims), and the current burst of file  *)
(* events: n events, span ms from the first to the latest, quiet ms since  *)
(* the latest, checks started since the first.  A burst ends when more     *)
(* than DEBOUNCE_DELAY ms pass without an event, or when stopWatching      *)
(* cancels its timer.  In last, shown is the kind of plain message the     *)
(* watcher showed ("info", "warning", "error"), rejected says that the     *)
(* promise of checkAndHandleConfigChange was rejected, answer is the       *)
(* answer to the reconciliation prompt the step belongs to, reopened says  *)
(* that startWatching ran while a watch handle was open, and pending that  *)
(* stopWatching ran while a debounce timeout was pending.                  *)
(***************************************************************************)
NoLast ==
    [op |-> "none", began |-> "none", missing |-> "none", sent |-> {},
     done |-> NoCycle, checked |-> "none", wrote |-> FALSE,
     refreshed |-> FALSE, notified |-> FALSE, shown |-> "none",
     rejected |-> FALSE, answer |-> "no", reopened |-> FALSE,
     pending |-> FALSE]

Began(l, u) == [l EXCEPT !.began = u.began, !.missing = u.missing, !.sent = u.sent]

Stepped(l, r) ==
    [l EXCEPT !.sent = r.sent, !.notified = r.notified,
              !.done = IF CycleFinished(r.cycle) THEN r.cycle ELSE NoCycle]

\* the steps of the clock, in ms
TickSteps == {100, 200}
QuietCap == DEBOUNCE_DELAY + 100
MaxBurstN == 3

(***************************************************************************)
(* burst records the file events the watcher got since the last quiet      *)
(* period: n events (counted up to MaxBurstN), span ms from the first to   *)
(* the last, quiet ms since the last, and checks, the calls of             *)
(* checkAndHandleConfigChange since the first (counted up to 2).  A burst  *)
(* ends with its check, or when the watcher stops.  seen is the content of *)
(* the credentials file at the latest check, while the content has not     *)
(* changed since (<<>> otherwise), and again says that the latest check    *)
(* read the content the check before it read.                              *)
(***************************************************************************)
NoBurst ==
    [n |-> 0, span |-> 0, quiet |-> QuietCap, checks |-> 0, seen |-> <<>>,
     again |-> FALSE]

\* the content of the file changes, or not
BurstFile(b, changed) == IF changed THEN [b EXCEPT !.seen = <<>>] ELSE b

BurstEvent(b) ==
    IF b.n = 0 \/ b.checks > 0 \/ b.quiet > DEBOUNCE_DELAY
    THEN [b EXCEPT !.n = 1, !.span = 0, !.quiet = 0, !.checks = 0]
    ELSE [b EXCEPT !.n = Min(@ + 1, MaxBurstN),
                   !.span = Min(@ + b.quiet, DEBOUNCE_DELAY),
                   !.quiet = 0]

BurstTick(b, dt) == [b EXCEPT !.quiet = Min(@ + dt, QuietCap)]

BurstCheck(b, f) ==
    [b EXCEPT !.checks = Min(@ + 1, 2), !.again = (b.seen = <<f>>), !.seen = <<f>>]

\* the burst after a step that took the watcher from w to w2
BurstAfter(b, w, w2) ==
    IF w.debounceTimer # 0 /\ w2.debounceTimer = 0
    THEN [NoBurst EXCEPT !.seen = b.seen, !.again = b.again]
    ELSE b

(***************************************************************************)
(* The steps of the extension.                                             *)
(***************************************************************************)
Listening == phase.pc \in {"actInit", "actInitDone", "actStats", "active"}

FreeSlots(f) == {i \in DOMAIN f : f[i].pc = "free"}
FirstFree(f) == CHOOSE i \in FreeSlots(f) : \A j \in FreeSlots(f) : i <= j

\* room for the call of updateStats u began
Room(u) == u.cycle = NoCycle \/ FreeSlots(cycles) # {}
Place(u) ==
    IF u.cycle = NoCycle THEN cycles
    ELSE [cycles EXCEPT ![FirstFree(cycles)] =
             [u.cycle EXCEPT !.joined = (FreeSlots(cycles) # DOMAIN cycles)]]

\* the step that called updateStats, which did u, is recorded as l
Entered(u, l) ==
    /\ Room(u)
    /\ statusBarItem' = u.statusBar
    /\ cycles' = Place(u)
    /\ last' = Began(l, u)

SetWatcher(w) ==
    /\ fileWatcher' = w.fileWatcher
    /\ debounceTimer' = w.debounceTimer
    /\ refreshCallback' = w.refreshCallback
    /\ handles' = w.handles
    /\ timeouts' = w.timeouts
    /\ burst' = BurstAfter(burst, WatcherNow, w)

SetTimer(t) ==
    /\ refreshTimer' = t.refreshTimer
    /\ intervals' = t.intervals

Phase(pc) == [pc |-> pc, apiKey |-> <<>>, apiUrl |-> <<>>]

\* the end of activate(): the file watcher is started when enabled
ActivateWatch(st, watchThrows) ==
    IF IsWatchEnabled(st) THEN StartWatching(WatcherNow, file, watchThrows)
    ELSE WatcherNow

\* activate(), from the test of the validation result on
ActivateValidated(sb, st, op, watchThrows, validation) ==
    IF ~validation.valid
    THEN /\ statusBarItem' = ShowConfigPrompt(sb, validation.missingConfig)
         /\ phase' = Phase("active")
         /\ SetWatcher(ActivateWatch(st, watchThrows))
         /\ last' = [NoLast EXCEPT !.op = op, !.missing = validation.missingConfig,
                                   !.shown = ActivateWatch(st, watchThrows).shown]
         /\ UNCHANGED <<cycles, refreshTimer, intervals>>
    ELSE /\ Entered(UpdateStats(ShowLoadingStatus(sb), st, "activate"),
                    [NoLast EXCEPT !.op = op])
         /\ phase' = Phase("actStats")
         /\ watchThrows = FALSE
         /\ UNCHANGED <<refreshTimer, intervals, fileWatcher, debounceTimer,
                        refreshCallback, handles, timeouts, burst>>

\* activate(), from the validation of the configuration on
ActivateValidate(sb, st, op, watchThrows) ==
    ActivateValidated(sb, st, op, watchThrows,
        ValidateApiConfig(GetConfiguration(st).apiUrl, GetConfiguration(st).apiId,
                          GetConfiguration(st).apiKey))

\* activate(), up to the first await
ActivateBegin(watchThrows) ==
    /\ phase.pc = "new"
    /\ \E has \in HasConfig(settings) :
          LET claudeSettings == ReadClaudeSettings(file)
          IN  IF has \/ claudeSettings.apiKey = <<>> \/ claudeSettings.apiUrl = <<>>
              THEN ActivateValidate(CreateStatusBarItem, settings, "activate",
                                    watchThrows)
              ELSE /\ phase' = [pc |-> "actInit", apiKey |-> claudeSettings.apiKey,
                                apiUrl |-> claudeSettings.apiUrl]
                   /\ statusBarItem' = CreateStatusBarItem
                   /\ watchThrows = FALSE
                   /\ last' = [NoLast EXCEPT !.op = "activateInit", !.wrote = TRUE]
                   /\ UNCHANGED <<cycles, refreshTimer, intervals, fileWatcher,
                                  debounceTimer, refreshCallback, handles,
                                  timeouts, burst>>
    /\ UNCHANGED <<settings, file, errorNotes, isWindowFocused, checks>>
    /\ UNCHANGED <<rs, vc>>

\* mutant: the listener does not look at the watch switch
ConfigurationListenerNoWatch(st, affectsWatch, l, watchThrows) ==
    /\ watchThrows = FALSE
    /\ UNCHANGED <<fileWatcher, debounceTimer, refreshCallback, handles, timeouts,
                   burst>>
    /\ SetTimer(StartRefreshTimer(refreshTimer, intervals, st))
    /\ Entered(UpdateStats(statusBarItem, st, "config"), l)

\* mutant: the listener does not restart the interval timer
ConfigurationListenerNoRestart(st, affectsWatch, l, watchThrows) ==
    /\ IF affectsWatch
       THEN IF IsWatchEnabled(st)
            THEN SetWatcher(StartWatching(WatcherNow, file, watchThrows))
            ELSE watchThrows = FALSE /\ SetWatcher(StopWatching(WatcherNow))
       ELSE /\ watchThrows = FALSE
            /\ UNCHANGED <<fileWatcher, debounceTimer, refreshCallback,
                           handles, timeouts, burst>>
    /\ UNCHANGED <<refreshTimer, intervals>>
    /\ Entered(UpdateStats(statusBarItem, st, "config"), l)

\* the listener of onDidChangeConfiguration, run with the settings st the
\* host now stores; affectsWatch: relayMeter.watchClaudeSettings changed;
\* l records the step the event belongs to
ConfigurationListener(st, affectsWatch, l, watchThrows) ==
    /\ IF affectsWatch
       THEN IF IsWatchEnabled(st)
            THEN SetWatcher(StartWatching(WatcherNow, file, watchThrows))
            ELSE watchThrows = FALSE /\ SetWatcher(StopWatching(WatcherNow))
       ELSE /\ watchThrows = FALSE
            /\ UNCHANGED <<fileWatcher, debounceTimer, refreshCallback,
                           handles, timeouts, burst>>
    /\ SetTimer(StartRefreshTimer(refreshTimer, intervals, st))
    /\ Entered(UpdateStats(statusBarItem, st, "config"),
               [l EXCEPT !.shown =
                   IF affectsWatch /\ IsWatchEnabled(st)
                   THEN StartWatching(WatcherNow, file, watchThrows).shown
                   ELSE @,
                         !.reopened =
                   affectsWatch /\ IsWatchEnabled(st) /\ fileWatcher # 0,
                         !.pending =
                   /\ affectsWatch
                   /\ ~IsWatchEnabled(st) \/ fileWatcher # 0
                   /\ timeouts # {}])

\* a settings write of the extension reaches the host: the settings change
\* and, when a value changed and the listener is registered, it runs
SettingsStored(st, l) ==
    /\ settings' = st
    /\ IF st # settings /\ Listening
       THEN \E watchThrows \in BOOLEAN :
               ConfigurationListener(
                   st, st.watchClaudeSettings # settings.watchClaudeSettings,
                   l, watchThrows)
       ELSE /\ last' = l
            /\ UNCHANGED <<statusBarItem, cycles, refreshTimer, intervals,
                           fileWatcher, debounceTimer, refreshCallback, handles,
                           timeouts, burst>>

\* the write of initializeConfigFromClaudeSettings settles (a failure is
\* caught and logged)
ActivateInitStored(ok) ==
    /\ phase.pc = "actInit"
    /\ phase' = Phase("actInitDone")
    /\ SettingsStored(IF ok THEN UpdateVSCodeConfig(settings, phase.apiKey, phase.apiUrl)
                      ELSE settings, [NoLast EXCEPT !.op = "initStored"])
    /\ UNCHANGED <<file, errorNotes, isWindowFocused, checks>>
    /\ UNCHANGED <<rs, vc>>

\* activate() resumes after initializeConfigFromClaudeSettings
ActivateResume(watchThrows) ==
    /\ phase.pc = "actInitDone"
    /\ ActivateValidate(statusBarItem, settings, "activateResume", watchThrows)
    /\ UNCHANGED <<settings, file, errorNotes, isWindowFocused, checks>>
    /\ UNCHANGED <<rs, vc>>

\* the user (or anything outside the extension) changes one setting
UserChangesSetting(key, val) ==
    /\ Listening
    /\ settings[key] # val
    /\ settings' = [settings EXCEPT ![key] = val]
    /\ \E watchThrows \in BOOLEAN :
          ConfigurationListener(settings', key = "watchClaudeSettings",
                                [NoLast EXCEPT !.op = "configChange"],
                                watchThrows)
    /\ UNCHANGED <<file, errorNotes, phase, isWindowFocused, checks>>
    /\ UNCHANGED <<rs, vc>>

\* relayMeter.watchClaudeSettings is written without a change of its
\* effective value (at another scope of the settings): the listener runs
WatchSettingTouched ==
    /\ Listening
    /\ \E watchThrows \in BOOLEAN :
          ConfigurationListener(settings, TRUE, [NoLast EXCEPT !.op = "configTouch"],
                                watchThrows)
    /\ UNCHANGED <<settings, file, errorNotes, phase, isWindowFocused, checks>>
    /\ UNCHANGED <<rs, vc>>

\* onDidChangeWindowState; the event reports focused, which may be the
\* state the window had
WindowStateChange(focused) ==
    /\ Listening
    /\ isWindowFocused' = focused
    /\ IF focused /\ ~isWindowFocused
       THEN /\ Entered(UpdateStats(statusBarItem, settings, "focus"),
                       [NoLast EXCEPT !.op = "focus"])
            /\ SetTimer(StartRefreshTimer(refreshTimer, intervals, settings))
       ELSE /\ last' = [NoLast EXCEPT !.op = IF focused THEN "focusSame"
                                             ELSE "blur"]
            /\ UNCHANGED <<statusBarItem, cycles, refreshTimer, intervals>>
    /\ UNCHANGED <<settings, file, timeouts, handles, errorNotes, phase,
                   watchVars, burst>>
    /\ UNCHANGED <<rs, vc>>

\* updateStats() called by op, with nothing else done in the step
JustUpdateStats(op) ==
    Entered(UpdateStats(statusBarItem, settings, op), [NoLast EXCEPT !.op = op])

\* mutant: a manual refresh is dropped while a call is in flight
RefreshCommandCoalesced ==
    /\ Listening
    /\ IF FreeSlots(cycles) # DOMAIN cycles
       THEN /\ last' = [NoLast EXCEPT !.op = "command"]
            /\ UNCHANGED <<statusBarItem, cycles>>
       ELSE JustUpdateStats("command")
    /\ UNCHANGED <<hostVars, phase, refreshTimer, isWindowFocused, watchVars, burst>>
    /\ UNCHANGED <<rs, vc>>

\* the command claude-relay-meter.refreshStats
RefreshCommand ==
    /\ Listening
    /\ JustUpdateStats("command")
    /\ UNCHANGED <<hostVars, phase, refreshTimer, isWindowFocused, watchVars, burst>>
    /\ UNCHANGED <<rs, vc>>

(***************************************************************************)
(* The reload commands.  A command in flight is a record: pc is            *)
(* "reloadKey" / "reloadUrl" (claude-relay-meter.reloadClaudeConfig awaits *)
(* its write of apiKey / apiUrl), "manualPrompt" (handleManualReloadConfig *)
(* awaits the answer to its modal dialog), "manualWrite" (it awaits        *)
(* updateVSCodeConfig), "resume" (the last write is stored, the command    *)
(* not yet resumed); apiKey and apiUrl are what it read from the file.     *)
(***************************************************************************)
NoReload == [pc |-> "idle", apiKey |-> <<>>, apiUrl |-> <<>>]

\* the command claude-relay-meter.reloadClaudeConfig, up to its first await
ReloadClaudeConfigCommand(f) ==
    LET claudeSettings == ReadClaudeSettings(f)
    IN  IF claudeSettings.apiKey = <<>> /\ claudeSettings.apiUrl = <<>>
        THEN [reload |-> NoReload, shown |-> "warning"]
        ELSE [reload |-> [pc |-> IF claudeSettings.apiKey # <<>> THEN "reloadKey"
                                 ELSE "reloadUrl",
                          apiKey |-> claudeSettings.apiKey,
                          apiUrl |-> claudeSettings.apiUrl],
              shown |-> "none"]

\* handleManualReloadConfig, up to its first await
HandleManualReloadConfig(f, st) ==
    LET claudeSettings == ReadClaudeSettings(f)
        newConfig == [apiKey |-> claudeSettings.apiKey,
                      apiUrl |-> claudeSettings.apiUrl]
    IN  IF claudeSettings.apiKey = <<>> \/ claudeSettings.apiUrl = <<>>
        THEN [reload |-> NoReload, shown |-> "warning"]
        ELSE IF CompareConfigs(newConfig, GetVSCodeConfig(st))
        THEN [reload |-> NoReload, shown |-> "info"]
        ELSE [reload |-> [pc |-> "manualPrompt", apiKey |-> newConfig.apiKey,
                          apiUrl |-> newConfig.apiUrl],
              shown |-> "none"]

\* the answers to the modal dialog of handleManualReloadConfig
ManualChoices == {"use", "keep", "settings", "dismiss"}

\* the command claude-relay-meter.reloadClaudeConfig is run
ReloadCommandBegin ==
    /\ Listening
    /\ vc = NoReload
    /\ vc' = ReloadClaudeConfigCommand(file).reload
    /\ last' = [NoLast EXCEPT !.op = "reloadCommand",
                              !.shown = ReloadClaudeConfigCommand(file).shown,
                              !.wrote = vc' # NoReload]
    /\ UNCHANGED <<hostVars, extVars, watchVars, burst>>
    /\ UNCHANGED rs

\* config.update('apiKey', ...) of the reload command settles; a rejection
\* is caught and shown
ReloadKeyStored(ok) ==
    /\ vc.pc = "reloadKey"
    /\ vc' = IF ~ok THEN NoReload
             ELSE IF vc.apiUrl # <<>> THEN [vc EXCEPT !.pc = "reloadUrl"]
             ELSE [vc EXCEPT !.pc = "resume"]
    /\ SettingsStored(IF ok THEN [settings EXCEPT !.apiKey = vc.apiKey]
                      ELSE settings,
                      [NoLast EXCEPT
                          !.op = IF ok THEN "reloadStored" ELSE "reloadFailed",
                          !.shown = IF ok THEN "none" ELSE "error"])
    /\ UNCHANGED <<file, errorNotes, phase, isWindowFocused, checks>>
    /\ UNCHANGED rs

\* config.update('apiUrl', ...) of the reload command settles
ReloadUrlStored(ok) ==
    /\ vc.pc = "reloadUrl"
    /\ vc' = IF ~ok THEN NoReload ELSE [vc EXCEPT !.pc = "resume"]
    /\ SettingsStored(IF ok THEN [settings EXCEPT !.apiUrl = vc.apiUrl]
                      ELSE settings,
                      [NoLast EXCEPT
                          !.op = IF ok THEN "reloadStored" ELSE "reloadFailed",
                          !.shown = IF ok THEN "none" ELSE "error"])
    /\ UNCHANGED <<file, errorNotes, phase, isWindowFocused, checks>>
    /\ UNCHANGED rs

\* the command claude-relay-meter.manualReloadConfig is run
ManualReloadBegin ==
    /\ Listening
    /\ vc = NoReload
    /\ vc' = HandleManualReloadConfig(file, settings).reload
    /\ last' = [NoLast EXCEPT !.op = "manualReload",
                              !.shown = HandleManualReloadConfig(file, settings).shown]
    /\ UNCHANGED <<hostVars, extVars, watchVars, burst>>
    /\ UNCHANGED rs

\* the modal dialog of handleManualReloadConfig is answered
ManualReloadAnswered(choice) ==
    /\ vc.pc = "manualPrompt"
    /\ vc' = IF choice = "use" THEN [vc EXCEPT !.pc = "manualWrite"] ELSE NoReload
    /\ last' = [NoLast EXCEPT !.op = "manualAnswered", !.wrote = (choice = "use")]
    /\ UNCHANGED <<hostVars, extVars, watchVars, burst>>
    /\ UNCHANGED rs

\* updateVSCodeConfig of handleManualReloadConfig settles; a rejection is
\* caught and shown
ManualReloadStored(ok) ==
    /\ vc.pc = "manualWrite"
    /\ vc' = IF ok THEN [vc EXCEPT !.pc = "resume"] ELSE NoReload
    /\ SettingsStored(IF ok THEN UpdateVSCodeConfig(settings, vc.apiKey, vc.apiUrl)
                      ELSE settings,
                      [NoLast EXCEPT
                          !.op = IF ok THEN "manualStored" ELSE "manualFailed",
                          !.shown = IF ok THEN "none" ELSE "error"])
    /\ UNCHANGED <<file, errorNotes, phase, isWindowFocused, checks>>
    /\ UNCHANGED rs

\* a reload command resumes after its last write: a message, updateStats()
ReloadResumes ==
    /\ vc.pc = "resume"
    /\ vc' = NoReload
    /\ Entered(UpdateStats(statusBarItem, settings, "reload"),
               [NoLast EXCEPT !.op = "reloaded", !.refreshed = TRUE,
                              !.shown = "info"])
    /\ UNCHANGED <<hostVars, phase, refreshTimer, isWindowFocused, watchVars, burst>>
    /\ UNCHANGED rs

\* mutant: the tick does not test the focus
IntervalFiresUnfocused ==
    /\ \E t \in intervals : JustUpdateStats("timer")
    /\ UNCHANGED <<hostVars, phase, refreshTimer, isWindowFocused, watchVars, burst>>
    /\ UNCHANGED <<rs, vc>>

\* a tick of a live interval timer
IntervalFires ==
    /\ \E t \in intervals :
          IF isWindowFocused
          THEN JustUpdateStats("timer")
          ELSE /\ last' = [NoLast EXCEPT !.op = "timerSkipped"]
               /\ UNCHANGED <<statusBarItem, cycles>>
    /\ UNCHANGED <<hostVars, phase, refreshTimer, isWindowFocused, watchVars, burst>>
    /\ UNCHANGED <<rs, vc>>

\* the button "retry" of an error notification of updateStats
RetryButton ==
    /\ errorNotes > 0
    /\ errorNotes' = errorNotes - 1
    /\ JustUpdateStats("retryButton")
    /\ UNCHANGED <<settings, file, intervals, timeouts, handles, phase,
                   refreshTimer, isWindowFocused, watchVars, burst>>
    /\ UNCHANGED <<rs, vc>>

\* an error notification is closed, or its button "open settings" used
CloseNote ==
    /\ errorNotes > 0
    /\ errorNotes' = errorNotes - 1
    /\ last' = [NoLast EXCEPT !.op = "closeNote"]
    /\ UNCHANGED <<settings, file, intervals, timeouts, handles, extVars,
                   watchVars, burst>>
    /\ UNCHANGED <<rs, vc>>

\* mutant: the id resolved from the key is written to the settings
CycleSteppedStoresId(i, r, op) ==
    /\ statusBarItem' = r.statusBar
    /\ cycles' = [cycles EXCEPT ![i] = IF CycleFinished(r.cycle) THEN NoCycle
                                       ELSE r.cycle]
    /\ errorNotes' = IF r.notified THEN Min(errorNotes + 1, MaxNotes) ELSE errorNotes
    /\ IF CycleFinished(r.cycle) /\ r.cycle.awaited /\ phase.pc = "actStats"
       THEN \* activate() resumes: startRefreshTimer(), then the watcher
            /\ phase' = Phase("active")
            /\ SetTimer(StartRefreshTimer(refreshTimer, intervals, settings))
            /\ \E watchThrows \in BOOLEAN :
                  /\ watchThrows => IsWatchEnabled(settings) /\ file.exists
                  /\ SetWatcher(ActivateWatch(settings, watchThrows))
                  /\ last' = Stepped(
                        [NoLast EXCEPT !.op = op,
                            !.shown = ActivateWatch(settings, watchThrows).shown], r)
       ELSE /\ last' = Stepped([NoLast EXCEPT !.op = op], r)
            /\ UNCHANGED <<phase, refreshTimer, intervals, fileWatcher,
                           debounceTimer, refreshCallback, handles, timeouts, burst>>
    /\ settings' = IF op = "resolved" /\ r.cycle.pc = "fetch"
                   THEN [settings EXCEPT !.apiId = r.cycle.actualApiId]
                   ELSE settings
    /\ UNCHANGED <<file, isWindowFocused, checks>>
    /\ UNCHANGED <<rs, vc>>

\* a call of updateStats in flight took a step with result r
CycleStepped(i, r, op) ==
    /\ statusBarItem' = r.statusBar
    /\ cycles' = [cycles EXCEPT ![i] = IF CycleFinished(r.cycle) THEN NoCycle
                                       ELSE r.cycle]
    /\ errorNotes' = IF r.notified THEN Min(errorNotes + 1, MaxNotes) ELSE errorNotes
    /\ IF CycleFinished(r.cycle) /\ r.cycle.awaited /\ phase.pc = "actStats"
       THEN \* activate() resumes: startRefreshTimer(), then the watcher
            /\ phase' = Phase("active")
            /\ SetTimer(StartRefreshTimer(refreshTimer, intervals, settings))
            /\ \E watchThrows \in BOOLEAN :
                  /\ watchThrows => IsWatchEnabled(settings) /\ file.exists
                  /\ SetWatcher(ActivateWatch(settings, watchThrows))
                  /\ last' = Stepped(
                        [NoLast EXCEPT !.op = op,
                            !.shown = ActivateWatch(settings, watchThrows).shown], r)
       ELSE /\ last' = Stepped([NoLast EXCEPT !.op = op], r)
            /\ UNCHANGED <<phase, refreshTimer, intervals, fileWatcher,
                           debounceTimer, refreshCallback, handles, timeouts, burst>>
    /\ UNCHANGED <<settings, file, isWindowFocused, checks>>
    /\ UNCHANGED <<rs, vc>>

\* getApiIdFromKey settles
ResolveCompletes(resps) ==
    \E i \in DOMAIN cycles : \E resp \in resps :
        /\ cycles[i].pc = "resolve"
        /\ CycleStepped(i, UpdateStatsResolved(statusBarItem, cycles[i], resp),
                        "resolved")

\* a fetchRelayStats call of the retry loop settles
FetchCompletes(resps) ==
    \E i \in DOMAIN cycles : \E resp \in resps :
        /\ cycles[i].pc = "fetch" /\ cycles[i].retry.pc = "call"
        /\ CycleStepped(i, UpdateStatsFetched(statusBarItem, cycles[i], resp),
                        "fetched")

\* the backoff wait of the retry loop elapses
BackoffElapses ==
    \E i \in DOMAIN cycles :
        /\ cycles[i].pc = "fetch" /\ cycles[i].retry.pc = "wait"
        /\ CycleStepped(i, UpdateStatsWaited(statusBarItem, cycles[i]), "waited")

\* deactivate()
Deactivate ==
    /\ phase.pc = "active"
    /\ phase' = Phase("deactivated")
    /\ SetTimer(StopRefreshTimer(refreshTimer, intervals))
    /\ SetWatcher(StopWatching(WatcherNow))
    /\ last' = [NoLast EXCEPT !.op = "deactivate", !.pending = (timeouts # {})]
    /\ UNCHANGED <<settings, file, errorNotes, statusBarItem, isWindowFocused,
                   cycles, checks>>
    /\ UNCHANGED <<rs, vc>>

(***************************************************************************)
(* The steps of the file watcher and of the reconciliation checks.         *)
(***************************************************************************)
\* the credentials file is written (f may equal the old content); the
\* watcher, when one is open, gets a change or rename event
FileEvent(f) ==
    /\ file' = f
    /\ fileWatcher # 0 \/ f # file
    /\ IF fileWatcher # 0
       THEN /\ debounceTimer' = HandleFileChange(WatcherNow).debounceTimer
            /\ timeouts' = HandleFileChange(WatcherNow).timeouts
            /\ burst' = BurstEvent(BurstFile(burst, f # file))
       ELSE /\ burst' = BurstFile(burst, f # file)
            /\ UNCHANGED <<debounceTimer, timeouts>>
    /\ last' = [NoLast EXCEPT !.op = "fileEvent"]
    /\ UNCHANGED <<settings, intervals, handles, errorNotes, extVars, fileWatcher,
                   refreshCallback, checks>>
    /\ UNCHANGED <<rs, vc>>

\* dt ms pass: no pending timeout is overdue
Tick(dt) ==
    /\ \A t \in timeouts : t.left >= dt
    /\ timeouts # {} \/ burst.quiet < QuietCap
    /\ timeouts' = {[t EXCEPT !.left = @ - dt] : t \in timeouts}
    /\ burst' = BurstTick(burst, dt)
    /\ last' = [NoLast EXCEPT !.op = "tick"]
    /\ UNCHANGED <<settings, file, intervals, handles, errorNotes, extVars, watchVars>>
    /\ UNCHANGED <<rs, vc>>

\* a debounce timeout fires: checkAndHandleConfigChange() runs
DebounceFires ==
    /\ \E t \in timeouts : \E thrown \in CheckThrows :
           /\ t.left = 0
           /\ LET k == CheckAndHandleConfigChange(file, settings, thrown)
              IN  /\ k.check = NoCheck \/ FreeSlots(checks) # {}
                  /\ checks' = IF k.check = NoCheck THEN checks
                               ELSE [checks EXCEPT ![FirstFree(checks)] = k.check]
                  /\ last' = [NoLast EXCEPT !.op = "check", !.checked = k.checked,
                                            !.rejected = k.rejected]
           /\ timeouts' = timeouts \ {t}
           /\ burst' = BurstCheck(burst, file)
           /\ UNCHANGED <<settings, file, intervals, handles, errorNotes, extVars,
                          fileWatcher, debounceTimer, refreshCallback>>
    /\ UNCHANGED <<rs, vc>>

\* the user answers the reconciliation prompt of a check
PromptAnswered(choice) ==
    /\ \E i \in DOMAIN checks :
           /\ checks[i].pc = "prompt"
           /\ checks' = [checks EXCEPT ![i] = PromptUserChoice(checks[i], choice)]
           /\ last' = [NoLast EXCEPT
                         !.op = "answered", !.answer = choice,
                         !.wrote = PromptUserChoice(checks[i], choice) # NoCheck]
           /\ UNCHANGED <<hostVars, extVars, fileWatcher, debounceTimer,
                          refreshCallback, burst>>
    /\ UNCHANGED <<rs, vc>>

\* the settings write of applyNewConfig settles
ApplyStored(ok) ==
    /\ \E i \in DOMAIN checks :
           /\ checks[i].pc = "applyWrite"
           /\ checks' = [checks EXCEPT ![i] = ApplyNewConfigSettled(checks[i], ok).check]
           /\ SettingsStored(IF ok THEN UpdateVSCodeConfig(settings, checks[i].apiKey,
                                                           checks[i].apiUrl)
                             ELSE settings,
                             [NoLast EXCEPT
                                 !.op = IF ok THEN "applyStored" ELSE "applyFailed",
                                 !.answer = checks[i].answer,
                                 !.shown = ApplyNewConfigSettled(checks[i], ok).shown])
           /\ UNCHANGED <<file, errorNotes, phase, isWindowFocused>>
    /\ UNCHANGED <<rs, vc>>

\* applyNewConfig resumes after the write: the refresh callback is called
ApplyResumes ==
    /\ \E i \in DOMAIN checks :
           /\ checks[i].pc = "applyResume"
           /\ checks' = [checks EXCEPT ![i] = NoCheck]
           /\ IF refreshCallback
              THEN Entered(UpdateStats(statusBarItem, settings, "watcher"),
                           [NoLast EXCEPT !.op = "applied", !.refreshed = TRUE,
                                          !.answer = checks[i].answer,
                                          !.shown = "info"])
              ELSE /\ last' = [NoLast EXCEPT !.op = "applied",
                                             !.answer = checks[i].answer,
                                             !.shown = "info"]
                   /\ UNCHANGED <<statusBarItem, cycles>>
           /\ UNCHANGED <<hostVars, phase, refreshTimer, isWindowFocused,
                          fileWatcher, debounceTimer, refreshCallback, burst>>
    /\ UNCHANGED <<rs, vc>>

\* the settings write of disableWatching settles
DisableStored(ok) ==
    /\ \E i \in DOMAIN checks :
           /\ checks[i].pc = "disableWrite"
           /\ checks' = [checks EXCEPT ![i] = DisableWatchingSettled(checks[i], ok)]
           /\ SettingsStored(IF ok THEN SetWatchEnabled(settings, FALSE) ELSE settings,
                             [NoLast EXCEPT
                                 !.op = IF ok THEN "disableStored" ELSE "disableFailed",
                                 !.answer = checks[i].answer])
           /\ UNCHANGED <<file, errorNotes, phase, isWindowFocused>>
    /\ UNCHANGED <<rs, vc>>

\* disableWatching resumes after the write: stopWatching()
DisableResumes ==
    /\ \E i \in DOMAIN checks :
           /\ checks[i].pc = "disableResume"
           /\ checks' = [checks EXCEPT ![i] = NoCheck]
           /\ SetWatcher(StopWatching(WatcherNow))
           /\ last' = [NoLast EXCEPT !.op = "disabled", !.shown = "info",
                                     !.answer = checks[i].answer,
                                     !.pending = (timeouts # {})]
           /\ UNCHANGED <<settings, file, intervals, errorNotes, extVars>>
    /\ UNCHANGED <<rs, vc>>

\* mutant: the 'error' event also stops the refresh timer
WatcherErrorStopsTimer ==
    /\ fileWatcher # 0
    /\ SetWatcher(StopWatching(WatcherNow))
    /\ SetTimer(StopRefreshTimer(refreshTimer, intervals))
    /\ last' = [NoLast EXCEPT !.op = "watcherError", !.shown = "error",
                              !.pending = (timeouts # {})]
    /\ UNCHANGED <<settings, file, errorNotes, phase, statusBarItem,
                   isWindowFocused, cycles, checks>>
    /\ UNCHANGED <<rs, vc>>

\* the 'error' event of the watch handle
WatcherError ==
    /\ fileWatcher # 0
    /\ SetWatcher(StopWatching(WatcherNow))
    /\ last' = [NoLast EXCEPT !.op = "watcherError", !.shown = "error",
                              !.pending = (timeouts # {})]
    /\ UNCHANGED <<settings, file, intervals, errorNotes, extVars, checks>>
    /\ UNCHANGED <<rs, vc>>

(***************************************************************************)
(* The initial state: the extension not yet activated.                     *)
(***************************************************************************)
SettingsOf(urls, ids, keys, watch, ivals) ==
    [apiUrl : urls, apiId : ids, apiKey : keys, watchClaudeSettings : watch,
     refreshInterval : ivals]

FilesOf(keys, urls) ==
    [exists : {TRUE}, apiKey : keys, apiUrl : urls] \cup {FileAbsent}

InitApp(sts, files) ==
    /\ settings \in sts
    /\ file \in files
    /\ intervals = {}
    /\ timeouts = {}
    /\ handles = {}
    /\ errorNotes = 0
    /\ phase = Phase("new")
    /\ statusBarItem = CreateStatusBarItem
    /\ refreshTimer = 0
    /\ isWindowFocused = TRUE
    /\ cycles = [i \in 1..MaxCycles |-> NoCycle]
    /\ fileWatcher = 0
    /\ debounceTimer = 0
    /\ refreshCallback = FALSE
    /\ checks = [i \in 1..MaxChecks |-> NoCheck]
    /\ last = NoLast
    /\ burst = NoBurst

\* the extension's variables in the specifications that do not use them
AppIdle ==
    InitApp({[apiUrl |-> <<>>, apiId |-> <<>>, apiKey |-> <<>>,
              watchClaudeSettings |-> TRUE, refreshInterval |-> <<>>]},
            {FileAbsent})

KeyOther == <<"s", "k", "-", "2">>

(***************************************************************************)
(* SpecValidate: validateApiConfig on every combination of the samples.    *)
(***************************************************************************)
VcIdle ==
    [apiUrl |-> <<>>, apiId |-> <<>>, apiKey |-> <<>>, done |-> FALSE,
     result |-> Valid]

RsIdle == [pc |-> "idle"]

InitValidate ==
    /\ vc \in [apiUrl : SampleUrls, apiId : SampleIds, apiKey : SampleKeys,
               done : {FALSE}, result : {Valid}]
    /\ rs = RsIdle
    /\ AppIdle

Validate ==
    /\ ~vc.done
    /\ vc' = [vc EXCEPT !.done = TRUE,
                        !.result = ValidateApiConfig(vc.apiUrl, vc.apiId, vc.apiKey)]
    /\ UNCHANGED <<retryVars, appVars>>

NextValidate == Validate

SpecValidate == InitValidate /\ [][NextValidate]_vars

(***************************************************************************)
(* SpecRetry: one call of fetchRelayStatsWithRetry, for every maxRetries   *)
(* in 0..MaxRetriesN and every initial delay of InitialDelays, against     *)
(* every sequence of responses.                                            *)
(***************************************************************************)

InitialDelays == {0, 250, DefaultRetryDelay}

InitRetry ==
    /\ rs \in {RetryStart("id1", n, d) : n \in 0..MaxRetriesN, d \in InitialDelays}
    /\ vc = VcIdle
    /\ AppIdle

RetryCallCompletes ==
    /\ rs.pc = "call"
    /\ \E resp \in Responses : rs' = RetryCallDone(rs, resp)
    /\ UNCHANGED <<valVars, appVars>>

RetryWaitElapses ==
    /\ rs.pc = "wait"
    /\ rs' = RetryWaitDone(rs)
    /\ UNCHANGED <<valVars, appVars>>

NextRetry == RetryCallCompletes \/ RetryWaitElapses

SpecRetry == InitRetry /\ [][NextRetry]_vars

(***************************************************************************)
(* Spec: the poller.  The settings hold any of a valid URL, an ID and a    *)
(* key or nothing; the user changes them, changes focus, refreshes by      *)
(* hand and answers notifications; the server answers the id resolution    *)
(* and the stats request in every way.                                     *)
(***************************************************************************)
PollResponses ==
    { [net |-> "ok", status |-> 200, hasData |-> TRUE, success |-> TRUE,
       payload |-> "p1"],
      [net |-> "noResponse", status |-> 0, hasData |-> FALSE, success |-> FALSE,
       payload |-> "p1"] }

PollResolveResponses ==
    { [net |-> "ok", status |-> 200, hasData |-> TRUE, success |-> TRUE,
       id |-> IdResolved],
      [net |-> "ok", status |-> 200, hasData |-> TRUE, success |-> TRUE,
       id |-> IdUuid],
      [net |-> "ok", status |-> 200, hasData |-> TRUE, success |-> TRUE,
       id |-> <<>>],
      [net |-> "noResponse", status |-> 0, hasData |-> FALSE, success |-> FALSE,
       id |-> <<>>] }

PollSettings ==
    [apiUrl |-> {<<>>, UrlHttps, UrlFtp}, apiId |-> {<<>>, IdUuid, <<"x">>},
     apiKey |-> {<<>>, KeySk1}]

Init ==
    /\ rs = RsIdle
    /\ vc = VcIdle
    /\ InitApp(SettingsOf(PollSettings.apiUrl, PollSettings.apiId,
                          PollSettings.apiKey, {TRUE}, {<<>>}),
               FilesOf({KeySk1}, {UrlHttps, UrlFtp}))

Environment ==
    \/ \E key \in DOMAIN PollSettings : \E val \in PollSettings[key] :
          UserChangesSetting(key, val)
    \/ \E focused \in BOOLEAN : WindowStateChange(focused)
    \/ RefreshCommand
    \/ RetryButton
    \/ CloseNote

Next ==
    \/ \E watchThrows \in BOOLEAN : ActivateBegin(watchThrows)
    \/ \E ok \in BOOLEAN : ActivateInitStored(ok)
    \/ \E watchThrows \in BOOLEAN : ActivateResume(watchThrows)
    \/ Deactivate
    \/ IntervalFires
    \/ ResolveCompletes(PollResolveResponses)
    \/ FetchCompletes(PollResponses)
    \/ BackoffElapses
    \/ Environment

Spec == Init /\ [][Next]_vars

(***************************************************************************)
(* SpecTimer: the refresh interval timer.  The settings hold an API id and *)
(* a URL or none; the user changes the URL and the refresh interval,       *)
(* changes the focus (the host also reports the focus the window has),     *)
(* refreshes by hand and answers notifications; the timer ticks; the       *)
(* server answers or does not.                                             *)
(***************************************************************************)
\* a refresh interval below the floor, in seconds
ShortInterval == 5

\* the values of relayMeter.refreshInterval, in seconds: unset, negative,
\* zero, below the floor, the floor, above it
SampleIntervals ==
    {<<>>, <<0 - ShortInterval>>, <<0>>, <<ShortInterval>>,
     <<MinRefreshInterval>>, <<MinRefreshInterval + ShortInterval>>}

TimerSettings ==
    [apiUrl |-> {<<>>, UrlHttps}, refreshInterval |-> SampleIntervals]

InitTimer ==
    /\ rs = RsIdle
    /\ vc = VcIdle
    /\ InitApp(SettingsOf(TimerSettings.apiUrl, {IdUuid}, {<<>>}, {FALSE}, {<<>>}),
               {FileAbsent})

NextTimer ==
    \/ ActivateBegin(FALSE)
    \/ Deactivate
    \/ IntervalFires
    \/ FetchCompletes(PollResponses)
    \/ BackoffElapses
    \/ \E key \in DOMAIN TimerSettings : \E val \in TimerSettings[key] :
          UserChangesSetting(key, val)
    \/ \E focused \in BOOLEAN : WindowStateChange(focused)
    \/ RefreshCommand
    \/ RetryButton
    \/ CloseNote

SpecTimer == InitTimer /\ [][NextTimer]_vars

(***************************************************************************)
(* SpecWatch: the settings reconciler.  The settings hold credentials; the *)
(* credentials file holds a key, a URL or both; it is                      *)
(* written at any time, with new content or the same; time passes in the   *)
(* steps of TickSteps; the user answers the reconciliation prompt in every *)
(* way and turns the watch setting on and off; settings writes succeed or  *)
(* fail; the server answers every request.                                 *)
(***************************************************************************)
WatchResponses ==
    { [net |-> "ok", status |-> 200, hasData |-> TRUE, success |-> TRUE,
       payload |-> "p1"] }

WatchResolveResponses ==
    { [net |-> "ok", status |-> 200, hasData |-> TRUE, success |-> TRUE,
       id |-> IdResolved] }

WatchFiles ==
    { [exists |-> TRUE, apiKey |-> KeyOther, apiUrl |-> UrlHttps],
      [exists |-> TRUE, apiKey |-> KeySk1, apiUrl |-> UrlHttp],
      [exists |-> TRUE, apiKey |-> KeyOther, apiUrl |-> <<>>],
      [exists |-> TRUE, apiKey |-> <<>>, apiUrl |-> UrlHttps] }

InitWatch ==
    /\ rs = RsIdle
    /\ vc = VcIdle
    /\ InitApp(SettingsOf({UrlHttps}, {<<>>}, {KeySk1}, {TRUE}, {<<>>}),
               WatchFiles)

NextWatch ==
    \/ \E watchThrows \in BOOLEAN : ActivateBegin(watchThrows)
    \/ Deactivate
    \/ ResolveCompletes(WatchResolveResponses)
    \/ FetchCompletes(WatchResponses)
    \/ \E val \in BOOLEAN : UserChangesSetting("watchClaudeSettings", val)
    \/ WatchSettingTouched
    \/ \E f \in WatchFiles : FileEvent(f)
    \/ \E dt \in TickSteps : Tick(dt)
    \/ DebounceFires
    \/ \E choice \in PromptChoices : PromptAnswered(choice)
    \/ \E ok \in BOOLEAN : ApplyStored(ok)
    \/ ApplyResumes
    \/ \E ok \in BOOLEAN : DisableStored(ok)
    \/ DisableResumes
    \/ WatcherError

SpecWatch == InitWatch /\ [][NextWatch]_vars

(***************************************************************************)
(* SpecApi: one call of fetchRelayStats and one of getApiIdFromKey, each   *)
(* given the same response, for every response of ApiResponses.  rs holds  *)
(* the response and what each call did with it (<<>> while it has not      *)
(* settled).                                                               *)
(***************************************************************************)
ApiResponses ==
    [net : {"ok"}, status : Statuses, hasData : BOOLEAN, success : BOOLEAN,
     payload : Payloads, id : {<<>>, IdResolved}]
    \cup [net : {"noResponse", "setupError"}, status : {0}, hasData : {FALSE},
          success : {FALSE}, payload : {"p1"}, id : {<<>>}]

InitApi ==
    /\ rs \in [pc : {"request"}, resp : ApiResponses, stats : {<<>>}, id : {<<>>}]
    /\ vc = VcIdle
    /\ AppIdle

ApiFetchSettles ==
    /\ rs.pc = "request"
    /\ rs.stats = <<>>
    /\ rs' = [rs EXCEPT !.stats = <<FetchRelayStats(rs.resp)>>]
    /\ UNCHANGED <<valVars, appVars>>

ApiResolveSettles ==
    /\ rs.pc = "request"
    /\ rs.id = <<>>
    /\ rs' = [rs EXCEPT !.id = <<GetApiIdFromKey(rs.resp)>>]
    /\ UNCHANGED <<valVars, appVars>>

NextApi == ApiFetchSettles \/ ApiResolveSettles

SpecApi == InitApi /\ [][NextApi]_vars

(***************************************************************************)
(* SpecPrompts: reconciliation checks side by side.  The settings hold     *)
(* credentials and the watcher is enabled; the credentials file is written *)
(* with credentials that differ from them, at any time, also while a       *)
(* prompt is open or a settings write pending; up to PromptSlots checks    *)
(* are in flight at once; the user answers the prompts in every way;       *)
(* settings writes succeed or fail.                                        *)
(***************************************************************************)
\* the reconciliation checks that may be in flight at once in SpecPrompts
PromptSlots == 2

PromptFiles ==
    { [exists |-> TRUE, apiKey |-> KeyOther, apiUrl |-> UrlHttps],
      [exists |-> TRUE, apiKey |-> KeySk1, apiUrl |-> UrlHttp] }

InitPrompts ==
    /\ rs = RsIdle
    /\ vc = VcIdle
    /\ settings = [apiUrl |-> UrlHttps, apiId |-> IdUuid, apiKey |-> KeySk1,
                   watchClaudeSettings |-> TRUE, refreshInterval |-> <<>>]
    /\ file \in PromptFiles
    /\ intervals = {}
    /\ timeouts = {}
    /\ handles = {}
    /\ errorNotes = 0
    /\ phase = Phase("new")
    /\ statusBarItem = CreateStatusBarItem
    /\ refreshTimer = 0
    /\ isWindowFocused = TRUE
    /\ cycles = [i \in 1..MaxCycles |-> NoCycle]
    /\ fileWatcher = 0
    /\ debounceTimer = 0
    /\ refreshCallback = FALSE
    /\ checks = [i \in 1..PromptSlots |-> NoCheck]
    /\ last = NoLast
    /\ burst = NoBurst

NextPrompts ==
    \/ ActivateBegin(FALSE)
    \/ FetchCompletes(WatchResponses)
    \/ \E f \in PromptFiles : FileEvent(f)
    \/ Tick(DEBOUNCE_DELAY)
    \/ DebounceFires
    \/ \E choice \in PromptChoices : PromptAnswered(choice)
    \/ \E ok \in BOOLEAN : ApplyStored(ok)
    \/ ApplyResumes
    \/ \E ok \in BOOLEAN : DisableStored(ok)
    \/ DisableResumes

SpecPrompts == InitPrompts /\ [][NextPrompts]_vars

(***************************************************************************)
(* SpecFaults: the poller and the watcher with everything failing.  The    *)
(* settings hold a key and a URL or no URL; the credentials file is absent *)
(* or holds other credentials, and is written; fs.watch throws or not and  *)
(* the watch handle reports errors; the id resolution fails or succeeds,   *)
(* the stats request fails or answers with data that cannot be rendered;   *)
(* reading the file and comparing fail or not;                             *)
(* settings writes succeed or fail; the timer ticks and the focus changes. *)
(***************************************************************************)
FaultResponses ==
    { [net |-> "ok", status |-> 200, hasData |-> TRUE, success |-> TRUE,
       payload |-> MalformedPayload],
      [net |-> "noResponse", status |-> 0, hasData |-> FALSE, success |-> FALSE,
       payload |-> "p1"] }

FaultResolveResponses ==
    { [net |-> "ok", status |-> 200, hasData |-> TRUE, success |-> TRUE,
       id |-> IdResolved],
      [net |-> "noResponse", status |-> 0, hasData |-> FALSE, success |-> FALSE,
       id |-> <<>>] }

FaultFiles ==
    { FileAbsent, [exists |-> TRUE, apiKey |-> KeyOther, apiUrl |-> UrlHttps] }

InitFaults ==
    /\ rs = RsIdle
    /\ vc = VcIdle
    /\ InitApp(SettingsOf({<<>>, UrlHttps}, {<<>>}, {KeySk1}, {TRUE}, {<<>>}),
               FaultFiles)

NextFaults ==
    \/ \E watchThrows \in BOOLEAN : ActivateBegin(watchThrows)
    \/ \E ok \in BOOLEAN : ActivateInitStored(ok)
    \/ \E watchThrows \in BOOLEAN : ActivateResume(watchThrows)
    \/ IntervalFires
    \/ \E focused \in BOOLEAN : WindowStateChange(focused)
    \/ ResolveCompletes(FaultResolveResponses)
    \/ FetchCompletes(FaultResponses)
    \/ BackoffElapses
    \/ WatchSettingTouched
    \/ \E f \in FaultFiles \ {FileAbsent} : FileEvent(f)
    \/ Tick(DEBOUNCE_DELAY)
    \/ DebounceFires
    \/ \E choice \in PromptChoices : PromptAnswered(choice)
    \/ \E ok \in BOOLEAN : ApplyStored(ok)
    \/ ApplyResumes
    \/ \E ok \in BOOLEAN : DisableStored(ok)
    \/ DisableResumes
    \/ WatcherError

SpecFaults == InitFaults /\ [][NextFaults]_vars

(***************************************************************************)
(* SpecReload: the four ways credentials get from the credentials file     *)
(* into the settings: the initialisation of activate(), the watcher's      *)
(* reconciliation, and the two reload commands.  The settings hold an id   *)
(* and no credentials; the file holds a key, a URL, both or neither, and   *)
(* is rewritten; the user takes or leaves the new credentials at each     *)
(* dialog (without turning the watcher off); settings writes succeed or    *)
(* fail; the server answers every request.                                 *)
(***************************************************************************)
ReloadFiles == FilesOf({<<>>, KeyOther}, {<<>>, UrlHttp}) \ {FileAbsent}

InitReload ==
    /\ rs = RsIdle
    /\ vc = NoReload
    /\ InitApp(SettingsOf({<<>>}, {IdUuid}, {<<>>}, {TRUE}, {<<>>}),
               ReloadFiles)

NextReload ==
    \/ ActivateBegin(FALSE)
    \/ \E ok \in BOOLEAN : ActivateInitStored(ok)
    \/ ActivateResume(FALSE)
    \/ FetchCompletes(WatchResponses)
    \/ \E f \in ReloadFiles : FileEvent(f)
    \/ Tick(DEBOUNCE_DELAY)
    \/ DebounceFires
    \/ \E choice \in {"useNew", "openSettings"} : PromptAnswered(choice)
    \/ \E ok \in BOOLEAN : ApplyStored(ok)
    \/ ApplyResumes
    \/ ReloadCommandBegin
    \/ \E ok \in BOOLEAN : ReloadKeyStored(ok)
    \/ \E ok \in BOOLEAN : ReloadUrlStored(ok)
    \/ ManualReloadBegin
    \/ \E choice \in ManualChoices : ManualReloadAnswered(choice)
    \/ \E ok \in BOOLEAN : ManualReloadStored(ok)
    \/ ReloadResumes

SpecReload == InitReload /\ [][NextReload]_vars

(***************************************************************************)
(* SpecRace: calls of updateStats side by side.  The configuration is      *)
(* valid and holds an API id; the user refreshes by hand while the timer   *)
(* ticks, and up to RaceCycles calls are in flight at once; the server     *)
(* answers each request with one of two payloads or not at all.            *)
(***************************************************************************)
\* the calls of updateStats that may be in flight at once in SpecRace
RaceCycles == 2

RaceResponses ==
    { [net |-> "ok", status |-> 200, hasData |-> TRUE, success |-> TRUE,
       payload |-> "p1"],
      [net |-> "ok", status |-> 200, hasData |-> TRUE, success |-> TRUE,
       payload |-> "p2"],
      [net |-> "noResponse", status |-> 0, hasData |-> FALSE, success |-> FALSE,
       payload |-> "p1"] }

InitRace ==
    /\ rs = RsIdle
    /\ vc = VcIdle
    /\ settings = [apiUrl |-> UrlHttps, apiId |-> IdUuid, apiKey |-> <<>>,
                   watchClaudeSettings |-> FALSE, refreshInterval |-> <<>>]
    /\ file = FileAbsent
    /\ intervals = {}
    /\ timeouts = {}
    /\ handles = {}
    /\ errorNotes = 0
    /\ phase = Phase("new")
    /\ statusBarItem = CreateStatusBarItem
    /\ refreshTimer = 0
    /\ isWindowFocused = TRUE
    /\ cycles = [i \in 1..RaceCycles |-> NoCycle]
    /\ fileWatcher = 0
    /\ debounceTimer = 0
    /\ refreshCallback = FALSE
    /\ checks = [i \in 1..MaxChecks |-> NoCheck]
    /\ last = NoLast
    /\ burst = NoBurst

NextRace ==
    \/ ActivateBegin(FALSE)
    \/ IntervalFires
    \/ RefreshCommand
    \/ FetchCompletes(RaceResponses)
    \/ BackoffElapses
    \/ CloseNote

SpecRace == InitRace /\ [][NextRace]_vars

(***************************************************************************)
(* SpecLive: calls of updateStats side by side, every one of them taking   *)
(* its next step in the end.  The settings hold a key, with or without an  *)
(* id; the timer and the refresh command begin calls while others are in   *)
(* flight; each request is answered or fails.  Every network call settles  *)
(* (axios is given a timeout of 10 s) and every backoff wait elapses: the  *)
(* steps of each call in flight are weakly fair.                           *)
(***************************************************************************)
LiveResponses ==
    { [net |-> "ok", status |-> 200, hasData |-> TRUE, success |-> TRUE,
       payload |-> "p1"],
      [net |-> "noResponse", status |-> 0, hasData |-> FALSE, success |-> FALSE,
       payload |-> "p1"] }

LiveResolveResponses ==
    { [net |-> "ok", status |-> 200, hasData |-> TRUE, success |-> TRUE,
       id |-> IdResolved],
      [net |-> "noResponse", status |-> 0, hasData |-> FALSE, success |-> FALSE,
       id |-> <<>>] }

InitLive ==
    /\ rs = RsIdle
    /\ vc = VcIdle
    /\ settings \in SettingsOf({UrlHttps}, {<<>>, IdUuid}, {KeySk1}, {FALSE}, {<<>>})
    /\ file = FileAbsent
    /\ intervals = {}
    /\ timeouts = {}
    /\ handles = {}
    /\ errorNotes = 0
    /\ phase = Phase("new")
    /\ statusBarItem = CreateStatusBarItem
    /\ refreshTimer = 0
    /\ isWindowFocused = TRUE
    /\ cycles = [i \in 1..RaceCycles |-> NoCycle]
    /\ fileWatcher = 0
    /\ debounceTimer = 0
    /\ refreshCallback = FALSE
    /\ checks = [i \in 1..MaxChecks |-> NoCheck]
    /\ last = NoLast
    /\ burst = NoBurst

NextLive ==
    \/ ActivateBegin(FALSE)
    \/ IntervalFires
    \/ RefreshCommand
    \/ ResolveCompletes(LiveResolveResponses)
    \/ FetchCompletes(LiveResponses)
    \/ BackoffElapses

\* the next step of the call of updateStats in slot i
CycleRuns(i) ==
    \/ /\ cycles[i].pc = "resolve"
       /\ \E resp \in LiveResolveResponses :
              CycleStepped(i, UpdateStatsResolved(statusBarItem, cycles[i], resp),
                           "resolved")
    \/ /\ cycles[i].pc = "fetch" /\ cycles[i].retry.pc = "call"
       /\ \E resp \in LiveResponses :
              CycleStepped(i, UpdateStatsFetched(statusBarItem, cycles[i], resp),
                           "fetched")
    \/ /\ cycles[i].pc = "fetch" /\ cycles[i].retry.pc = "wait"
       /\ CycleStepped(i, UpdateStatsWaited(statusBarItem, cycles[i]), "waited")

SpecLive ==
    /\ InitLive
    /\ [][NextLive]_vars
    /\ \A i \in 1..RaceCycles : WF_vars(CycleRuns(i))

----------------------------------------------------------------------------
(***************************************************************************)
(* Claims about fetchRelayStatsWithRetry (checked under SpecRetry).        *)
(***************************************************************************)
AllFailed(r) == \A i \in 1..Len(r.outcomes) : ~r.outcomes[i].ok

\* C1: when every call of fetchRelayStats fails, a finished call of
\* fetchRelayStatsWithRetry(.., n, d) has made exactly n attempts and n-1
\* waits between them (none when n = 0), the k-th wait lasting d * 2^(k-1)
\* ms; at no time has a wait been started after the last attempt.
C1_BackoffSchedule ==
    /\ \A k \in 1..Len(rs.waits) : rs.waits[k] = rs.delay0 * Pow2(k - 1)
    /\ Len(rs.waits) <= Max(rs.maxRetries - 1, 0)
    /\ (RetryFinished(rs) /\ AllFailed(rs)) =>
          /\ rs.nCalls = rs.maxRetries
          /\ Len(rs.outcomes) = rs.maxRetries
          /\ Len(rs.waits) = Max(rs.maxRetries - 1, 0)

\* C1 witness: four attempts all failed, after waits of d, 2d and 4d
C1_Witness ==
    /\ rs.pc = "thrown" /\ rs.maxRetries = 4 /\ rs.delay0 = 250
    /\ rs.nCalls = 4 /\ rs.waits = <<250, 500, 1000>>

\* C2: the call returns the payload of the first attempt that succeeds:
\* once attempt j has succeeded after j-1 failures the call has returned
\* that payload, with exactly j attempts and j-1 waits made, and nothing
\* more is attempted (a success is always the last thing the call did).
C2_FirstSuccessReturns ==
    /\ \A i \in 1..Len(rs.outcomes) :
          rs.outcomes[i].ok =>
             /\ i = Len(rs.outcomes)
             /\ rs.pc = "returned"
             /\ rs.result = rs.outcomes[i].payload
             /\ rs.nCalls = i
             /\ Len(rs.waits) = i - 1
             /\ i <= rs.maxRetries
    /\ rs.pc = "returned" =>
          /\ Len(rs.outcomes) >= 1
          /\ rs.outcomes[Len(rs.outcomes)].ok

\* C2 witness: two failures, then attempt 3 succeeds with payload p2
C2_Witness ==
    /\ rs.pc = "returned" /\ rs.result = "p2" /\ Len(rs.outcomes) = 3
    /\ ~rs.outcomes[1].ok /\ ~rs.outcomes[2].ok /\ rs.maxRetries = 4

\* C3: when all maxRetries attempts fail the call throws (no payload is
\* returned) an error that reports maxRetries and wraps the message of the
\* error of the last attempt; with maxRetries = 3 and an initial delay of
\* 1000 the waits before the failure add up to 1000 + 2000 ms.
C3_ExhaustedError ==
    (rs.maxRetries >= 1 /\ Len(rs.outcomes) = rs.maxRetries /\ AllFailed(rs)) =>
        /\ rs.pc = "thrown"
        /\ rs.result = NoPayload
        /\ rs.error.msg = "RetriesExhausted"
        /\ rs.error.retries = rs.maxRetries
        /\ rs.error.last = rs.outcomes[rs.maxRetries].err.msg
        /\ rs.error.lastStatus = rs.outcomes[rs.maxRetries].err.status
        /\ (rs.maxRetries = DefaultMaxRetries /\ rs.delay0 = DefaultRetryDelay) =>
              SumSeq(rs.waits) = 1000 + 2000

\* C3 witness: three failures with different errors, the last a 500
C3_Witness ==
    /\ rs.pc = "thrown" /\ rs.maxRetries = 3 /\ rs.delay0 = 1000
    /\ Len(rs.outcomes) = 3
    /\ rs.outcomes[1].err.msg = "NoConnection"
    /\ rs.outcomes[3].err.msg = "ServerError"
    /\ rs.error.last = "ServerError"

----------------------------------------------------------------------------
(***************************************************************************)
(* Claims about validateApiConfig (checked under SpecValidate).            *)
(***************************************************************************)
\* "empty or whitespace-only" (an omitted key counts as empty)
WhitespaceOnly(s) == s = Undefined \/ \A i \in 1..Len(s) : IsSpace(s[i])

\* C6: an empty or whitespace-only apiUrl is invalid, reported as 'both'
\* exactly when apiId and apiKey are both empty or whitespace-only and as
\* 'apiUrl' otherwise; 'apiId' is reported only for a URL that is present
\* and parses as a URL.
C6_UrlAbsenceDominates ==
    vc.done =>
        /\ WhitespaceOnly(vc.apiUrl) =>
              /\ ~vc.result.valid
              /\ vc.result.missingConfig =
                    IF WhitespaceOnly(vc.apiId) /\ WhitespaceOnly(vc.apiKey)
                    THEN "both" ELSE "apiUrl"
        /\ vc.result.missingConfig = "both" =>
              /\ WhitespaceOnly(vc.apiUrl)
              /\ WhitespaceOnly(vc.apiId) /\ WhitespaceOnly(vc.apiKey)
        /\ vc.result.missingConfig = "apiId" =>
              ~WhitespaceOnly(vc.apiUrl) /\ ParseURL(vc.apiUrl).ok

\* C6 witness: no URL but an ID: 'apiUrl' is reported, not 'both'
C6_Witness ==
    /\ vc.done /\ vc.apiUrl = <<" ", " ">> /\ vc.apiId = <<"x">>
    /\ vc.apiKey = Undefined /\ vc.result.missingConfig = "apiUrl"

\* "parses as a URL with an http or https scheme"
HttpOrHttps(apiUrl) ==
    /\ ParseURL(apiUrl).ok
    /\ ParseURL(apiUrl).protocol \in
          { <<"h","t","t","p",":">>, <<"h","t","t","p","s",":">> }

\* C7: the result is valid exactly when apiUrl is not blank and parses as
\* a URL with an http or https scheme, apiId or apiKey is not blank, and a
\* non-blank apiId has the UUID shape 8-4-4-4-12.
C7_ValidExactlyWhen ==
    vc.done =>
        (vc.result.valid <=>
            /\ ~WhitespaceOnly(vc.apiUrl)
            /\ HttpOrHttps(vc.apiUrl)
            /\ ~WhitespaceOnly(vc.apiId) \/ ~WhitespaceOnly(vc.apiKey)
            /\ ~WhitespaceOnly(vc.apiId) =>
                  /\ Len(vc.apiId) = 36
                  /\ \A i \in 1..36 :
                        IF i \in {9, 14, 19, 24} THEN vc.apiId[i] = "-"
                        ELSE IsHex(vc.apiId[i]))

\* C7, with the scheme test the code makes (the protocol starts with
\* "http") in place of "http or https": this is what the code computes.
C7_ValidAsCoded ==
    vc.done =>
        (vc.result.valid <=>
            /\ ~WhitespaceOnly(vc.apiUrl)
            /\ ParseURL(vc.apiUrl).ok
            /\ StartsWith(ParseURL(vc.apiUrl).protocol, <<"h","t","t","p">>)
            /\ ~WhitespaceOnly(vc.apiId) \/ ~WhitespaceOnly(vc.apiKey)
            /\ ~WhitespaceOnly(vc.apiId) =>
                  /\ Len(vc.apiId) = 36
                  /\ \A i \in 1..36 :
                        IF i \in {9, 14, 19, 24} THEN vc.apiId[i] = "-"
                        ELSE IsHex(vc.apiId[i]))

\* a key alone is accepted without a format check
C7_KeyOnlyAccepted ==
    /\ vc.done /\ vc.apiUrl = UrlHttps /\ vc.apiId = <<>> /\ vc.apiKey = <<"x">>
    /\ vc.result.valid

----------------------------------------------------------------------------
(***************************************************************************)
(* Claims about updateStats and activate (checked under Spec).             *)
(***************************************************************************)
\* the configuration a call of updateStats c read makes it resolve the id
KeyOnly(c) == NeedsResolve(c.apiId, c.apiKey)

\* the calls of updateStats in flight and the one that finished in the last
\* step
CyclesSeen ==
    ({cycles[i] : i \in DOMAIN cycles} \cup {last.done}) \ {NoCycle}

ValidNow ==
    ValidateApiConfig(GetConfiguration(settings).apiUrl,
                      GetConfiguration(settings).apiId,
                      GetConfiguration(settings).apiKey)

\* C4: a call of updateStats that read a valid apiUrl, a non-empty apiKey
\* and an empty apiId calls getApiIdFromKey exactly once; no fetchRelayStats
\* call starts before that call has returned; every fetchRelayStats call of
\* the retry loop is given the id it returned; a call that reaches the fetch
\* or renders has made exactly that one resolution call.
C4_ResolveOnceBeforeFetch ==
    \A c \in CyclesSeen :
        KeyOnly(c) =>
            /\ c.nResolve = 1
            /\ c.pc = "resolve" => c.retry = NoRetry
            /\ c.retry.nCalls > 0 =>
                   /\ c.actualApiId # c.apiId
                   /\ c.actualApiId \in {r.id : r \in PollResolveResponses}
                   /\ c.retry.apiId = c.actualApiId
                   /\ c.retry.callIds = {c.actualApiId}
            /\ c.pc = "rendered" => c.retry.nCalls > 0

\* a call that resolved the id, failed twice to fetch and rendered the third
\* answer
C4_Witness ==
    /\ last.done # NoCycle
    /\ KeyOnly(last.done)
    /\ last.done.pc = "rendered"
    /\ last.done.retry.nCalls = DefaultMaxRetries
    /\ last.done.retry.callIds = {IdResolved}

\* C5: every call of updateStats validates the configuration it reads: a
\* call that finds it invalid sends no request, shows the configuration
\* prompt for the reported missing field and ends (it never becomes a call
\* in flight); a call sends a request only with a valid configuration; and
\* activate(), finding the configuration invalid, shows the prompt, sends
\* nothing and starts no call of updateStats.
C5_ValidationGate ==
    /\ last.began # "none" => (last.began = "invalid" <=> ~ValidNow.valid)
    /\ last.began = "invalid" =>
           /\ last.sent = {}
           /\ last.missing = ValidNow.missingConfig
           /\ statusBarItem.kind = "prompt"
           /\ statusBarItem.missing = last.missing
    /\ \A c \in CyclesSeen :
           ValidateApiConfig(c.apiUrl, c.apiId, c.apiKey).valid
    /\ (last.op \in {"activate", "activateResume"} /\ ~ValidNow.valid) =>
           /\ last.began = "none"
           /\ last.sent = {}
           /\ statusBarItem.kind = "prompt"
           /\ statusBarItem.missing = ValidNow.missingConfig
           /\ phase.pc # "actStats"

\* the URL is removed from the settings while a call is in flight: the
\* listener's call of updateStats shows the prompt and sends nothing
C5_Witness ==
    /\ last.op = "configChange"
    /\ last.began = "invalid"
    /\ last.missing = "apiUrl"
    /\ statusBarItem.kind = "prompt"
    /\ \E i \in DOMAIN cycles : cycles[i] # NoCycle

\* activate() finds the configuration invalid after the settings were
\* filled from the credentials file
C5_ActivationWitness ==
    /\ last.op = "activateResume"
    /\ ~ValidNow.valid
    /\ settings.apiUrl = UrlFtp
    /\ statusBarItem.kind = "prompt"

----------------------------------------------------------------------------
(***************************************************************************)
(* Claims about the settings watcher (checked under SpecWatch).            *)
(***************************************************************************)
\* C8: the file events of a burst that the watcher gets within one window of
\* DEBOUNCE_DELAY ms (the last less than 300 ms after the first) lead to one
\* call of checkAndHandleConfigChange, however many they are: none while
\* less than 300 ms have passed since the last event, never more than one,
\* and exactly one once more than 300 ms have passed, the watcher staying
\* active.
C8_DebounceCoalesces ==
    (burst.n >= 1 /\ burst.span < DEBOUNCE_DELAY) =>
        /\ burst.checks <= 1
        /\ burst.quiet < DEBOUNCE_DELAY => burst.checks = 0
        /\ burst.quiet > DEBOUNCE_DELAY => burst.checks = 1

\* three or more events within 200 ms, checked once, 400 ms ago
C8_Witness ==
    /\ burst.n = MaxBurstN
    /\ burst.span > 0
    /\ burst.span < DEBOUNCE_DELAY
    /\ burst.quiet > DEBOUNCE_DELAY
    /\ burst.checks = 1
    /\ fileWatcher # 0

\* the checks with a prompt or a settings write pending
ChecksOpen == {i \in DOMAIN checks : checks[i] # NoCheck}

\* C9: when checkAndHandleConfigChange runs and the run before it read the
\* same content of the credentials file, the content not having changed in
\* between and every prompt of an earlier run having been answered, it shows
\* no prompt.
C9_SecondRunSilent ==
    (/\ last.op = "check"
     /\ burst.again
     /\ Cardinality(ChecksOpen) <= (IF last.checked = "prompt" THEN 1 ELSE 0))
        => last.checked # "prompt"

\* C10: a run of checkAndHandleConfigChange that reads a credentials file
\* without apiKey or without apiUrl shows no prompt, starts no settings
\* write, does not call the refresh callback (no call of updateStats begins,
\* the status bar keeps its content) and leaves the watcher open.
C10_IncompleteFileIgnored ==
    [][(/\ last'.op = "check"
        /\ last'.checked # "error"
        /\ (file.apiKey = <<>> \/ file.apiUrl = <<>>)) =>
          /\ last'.checked = "incomplete"
          /\ checks' = checks
          /\ settings' = settings
          /\ cycles' = cycles
          /\ statusBarItem' = statusBarItem
          /\ ~last'.wrote /\ ~last'.refreshed
          /\ fileWatcher # 0
          /\ fileWatcher' = fileWatcher]_vars

\* a check has read a file that holds a key and no URL, while the settings
\* hold other credentials
C10_Witness ==
    /\ last.op = "check"
    /\ last.checked = "incomplete"
    /\ file.apiKey = KeyOther
    /\ file.apiUrl = <<>>
    /\ settings.apiKey = KeySk1
    /\ fileWatcher # 0

\* the credentials of a record: of the settings, of the file, of a check
Credentials(r) == [apiKey |-> r.apiKey, apiUrl |-> r.apiUrl]

\* C11: a run of checkAndHandleConfigChange that reads a credentials file
\* with both apiKey and apiUrl (and meets no error) shows the prompt exactly
\* when the file differs from the active settings in apiKey or in apiUrl,
\* the prompt being for the credentials of the file; when both are equal it
\* returns with no prompt, no settings write and no refresh.
C11_PromptIffDiffers ==
    [][(/\ last'.op = "check"
        /\ last'.checked # "error"
        /\ file.apiKey # <<>> /\ file.apiUrl # <<>>) =>
          /\ last'.checked = "prompt" <=>
                (file.apiKey # settings.apiKey \/ file.apiUrl # settings.apiUrl)
          /\ last'.checked = "prompt" =>
                \E i \in DOMAIN checks :
                    /\ checks[i] = NoCheck
                    /\ checks'[i].pc = "prompt"
                    /\ Credentials(checks'[i]) = Credentials(file)
          /\ last'.checked # "prompt" =>
                /\ last'.checked = "same"
                /\ checks' = checks
                /\ cycles' = cycles
                /\ statusBarItem' = statusBarItem
                /\ ~last'.wrote /\ ~last'.refreshed
          /\ settings' = settings]_vars

\* the file has the key of the settings and another URL: the check prompts
C11_Witness ==
    /\ last.op = "check"
    /\ last.checked = "prompt"
    /\ file.apiKey = settings.apiKey
    /\ file.apiUrl = UrlHttp
    /\ settings.apiUrl = UrlHttps
    /\ \E i \in DOMAIN checks : checks[i].pc = "prompt"

\* C12: when the reconciliation prompt is dismissed without a selection,
\* the handling of the dismissal ends (disableWatching returns) with the
\* watch-enabled flag false, no watch handle open, no debounce timer
\* pending, and the active credentials as they were.
C12_DismissalDisables ==
    [][(last'.op \in {"disabled", "disableFailed"} /\ last'.answer = "none") =>
          /\ ~IsWatchEnabled(settings')
          /\ fileWatcher' = 0
          /\ debounceTimer' = 0
          /\ timeouts' = {}
          /\ Credentials(settings') = Credentials(settings)]_vars

\* C12, for a dismissal whose settings write is stored: the flag is false
\* once the write is stored, and when disableWatching returns no watch
\* handle is open and no debounce timer is pending
C12_DismissalDisablesWhenStored ==
    [][/\ (last'.op = "disableStored" /\ last'.answer = "none") =>
              /\ ~IsWatchEnabled(settings')
              /\ Credentials(settings') = Credentials(settings)
       /\ (last'.op = "disabled" /\ last'.answer = "none") =>
              /\ fileWatcher' = 0
              /\ debounceTimer' = 0
              /\ timeouts' = {}
              /\ settings' = settings]_vars

\* a dismissal has disabled the watcher
C12_StoredWitness ==
    /\ last.op = "disabled"
    /\ last.answer = "none"
    /\ ~IsWatchEnabled(settings)
    /\ fileWatcher = 0

Resuming(ch) == {i \in DOMAIN ch : ch[i].pc = "applyResume"}

\* C14: after "apply new", applyNewConfig first writes the credentials of
\* the prompt to the settings: the answer itself changes no setting and
\* calls no refresh; the stored write leaves the credentials of the prompt
\* in the settings; the refresh callback is called only by applyNewConfig
\* resumed after its stored write, and that step ends the check (one
\* call per answer, and a resumed applyNewConfig always calls); when the write
\* fails the settings are unchanged, an error message is shown, and the
\* check ends without a call of the refresh callback.
C14_ApplyWritesThenRefreshes ==
    [][/\ (last'.op = "answered" /\ last'.answer = "useNew") =>
              /\ settings' = settings
              /\ cycles' = cycles
              /\ ~last'.refreshed
              /\ \E i \in DOMAIN checks :
                     checks[i].pc = "prompt" /\ checks'[i].pc = "applyWrite"
       /\ last'.op = "applyStored" =>
              /\ ~last'.refreshed
              /\ \E i \in DOMAIN checks :
                     /\ checks[i].pc = "applyWrite"
                     /\ checks'[i].pc = "applyResume"
                     /\ Credentials(settings') = Credentials(checks[i])
       /\ last'.refreshed =>
              /\ last'.op = "applied"
              /\ last'.began # "none"
              /\ \E i \in DOMAIN checks :
                     /\ checks[i].pc = "applyResume"
                     /\ checks'[i] = NoCheck
       /\ Resuming(checks) \ Resuming(checks') # {} => last'.refreshed
       /\ last'.op = "applyFailed" =>
              /\ settings' = settings
              /\ last'.shown = "error"
              /\ ~last'.refreshed
              /\ last'.began = "none"
              /\ cycles' = cycles
              /\ Resuming(checks') = Resuming(checks)
              /\ \E i \in DOMAIN checks :
                     checks[i].pc = "applyWrite" /\ checks'[i] = NoCheck]_vars

\* the new credentials are stored and the refresh callback has begun a call
\* of updateStats with them
C14_Witness ==
    /\ last.op = "applied"
    /\ last.refreshed
    /\ last.began = "resolve"
    /\ settings.apiKey = KeyOther
    /\ Credentials(settings) = Credentials(file)
    /\ \E i \in DOMAIN cycles : cycles[i].pc = "resolve" /\ cycles[i].apiKey = KeyOther

\* C15: while the watch-enabled flag is false no watch handle is open and
\* no debounce timer is pending, so no file event leads to a run of
\* checkAndHandleConfigChange or to a prompt; the flag becomes true again
\* only by a change of the setting from outside, and the listener of that
\* change starts the watcher (unless startWatching reports a failure).
C15_DisabledUntilReenabled ==
    [][/\ ~IsWatchEnabled(settings') =>
              /\ fileWatcher' = 0
              /\ handles' = {}
              /\ timeouts' = {}
       /\ ~IsWatchEnabled(settings) =>
              /\ last'.op # "check"
              /\ \A i \in DOMAIN checks : checks'[i].pc = "prompt" => checks'[i] = checks[i]
       /\ (~IsWatchEnabled(settings) /\ IsWatchEnabled(settings')) =>
              /\ last'.op = "configChange"
              /\ last'.shown = "none" => fileWatcher' # 0 /\ handles' = {fileWatcher'}]_vars

\* the reconciler has stored the cleared flag, and the file is written: no
\* debounce timer is started
C15_Witness ==
    /\ last.op = "fileEvent"
    /\ ~IsWatchEnabled(settings)
    /\ \E i \in DOMAIN checks : checks[i].pc = "disableResume"
    /\ fileWatcher = 0
    /\ timeouts = {}
    /\ Credentials(file) # Credentials(settings)

\* C16: a run of checkAndHandleConfigChange that meets an error while it
\* reads the credentials file or compares it ends with no prompt, no
\* settings write, no message or notification shown, no call of updateStats
\* and the watcher open as before; no run rejects its promise.
C16_CheckErrorsCaught ==
    [][/\ (last'.op = "check" /\ last'.checked = "error") =>
              /\ checks' = checks
              /\ settings' = settings
              /\ cycles' = cycles
              /\ statusBarItem' = statusBarItem
              /\ errorNotes' = errorNotes
              /\ ~last'.wrote /\ ~last'.refreshed /\ ~last'.notified
              /\ last'.shown = "none"
              /\ fileWatcher # 0
              /\ fileWatcher' = fileWatcher
              /\ handles' = handles
       /\ last'.op = "check" => ~last'.rejected]_vars

\* a check of a file that differs from the settings met an error
C16_Witness ==
    /\ last.op = "check"
    /\ last.checked = "error"
    /\ file.apiKey = KeyOther
    /\ file.apiUrl = UrlHttps
    /\ settings.apiKey = KeySk1
    /\ fileWatcher # 0
    /\ \A i \in DOMAIN checks : checks[i] = NoCheck

\* C18: at most one watch handle is open, the one fileWatcher holds; at most
\* one debounce timer is pending, the one debounceTimer holds, and only
\* while a handle is open; startWatching run with a handle open closes it
\* and cancels the pending debounce timer before it opens the new one.
C18_WatcherSingleton ==
    [][/\ handles' = (IF fileWatcher' = 0 THEN {} ELSE {fileWatcher'})
       /\ Cardinality(timeouts') <= 1
       /\ \A t \in timeouts' : t.id = debounceTimer' /\ fileWatcher' # 0
       /\ last'.reopened =>
              /\ fileWatcher # 0
              /\ timeouts' = {}
              /\ debounceTimer' = 0
              /\ handles' \subseteq {fileWatcher'}]_vars

\* startWatching ran with a handle open and a debounce timer pending or
\* fired, and opened a new handle
C18_Witness ==
    /\ last.op = "configTouch"
    /\ last.reopened
    /\ fileWatcher # 0
    /\ handles = {fileWatcher}
    /\ timeouts = {}
    /\ burst.seen # <<>>

----------------------------------------------------------------------------
(***************************************************************************)
(* Claims about the refresh interval timer (checked under SpecTimer).      *)
(***************************************************************************)
\* the one interval startRefreshTimer leaves, with the settings st
TheInterval(rt, st) ==
    {[id |-> rt, period |-> GetConfiguration(st).refreshInterval * 1000]}

\* C17: at most one refresh interval is live, the one refreshTimer holds
\* (none when refreshTimer is undefined), whatever activation, configuration
\* changes, focus changes, manual refreshes and deactivation came before:
\* no interval is left ticking without its handle; after deactivate() none
\* is live.
C17_TimerSingleton ==
    /\ Cardinality(intervals) <= 1
    /\ \A t \in intervals : t.id = refreshTimer
    /\ refreshTimer # 0 => intervals # {}
    /\ phase.pc = "deactivated" => intervals = {}

\* the interval was shortened, and the focus regained: one interval, of the
\* floor period
C17_Witness ==
    /\ last.op = "focus"
    /\ refreshTimer # 0
    /\ intervals = {[id |-> refreshTimer, period |-> MinRefreshInterval * 1000]}

\* C19: a tick of the interval timer while the window is unfocused is
\* skipped: it begins no call of updateStats and sends no request, and
\* leaves the timer as it is; no tick begins a call while the window is
\* unfocused; the event that takes the focus away leaves the interval
\* timer live and untouched.
C19_UnfocusedTicksSkipped ==
    [][/\ last'.op = "timerSkipped" =>
              /\ ~isWindowFocused
              /\ last'.began = "none"
              /\ last'.sent = {}
              /\ cycles' = cycles
              /\ statusBarItem' = statusBarItem
              /\ intervals' = intervals
              /\ refreshTimer' = refreshTimer
       /\ ~isWindowFocused => last'.op # "timer"
       /\ last'.op = "blur" =>
              /\ ~isWindowFocused'
              /\ intervals' = intervals
              /\ refreshTimer' = refreshTimer
              /\ cycles' = cycles]_vars

\* the window is unfocused, the configuration valid, and a tick was skipped
C19_Witness ==
    /\ last.op = "timerSkipped"
    /\ ~isWindowFocused
    /\ intervals # {}
    /\ ValidNow.valid
    /\ \A i \in DOMAIN cycles : cycles[i] = NoCycle

\* the calls of updateStats in flight
InFlight(cy) == {i \in DOMAIN cy : cy[i] # NoCycle}

\* C20: the window-state event that takes the window from unfocused to
\* focused, and every change of the settings while the listener is
\* registered (whoever made it), calls updateStats once and
\* restarts the interval timer: afterwards the one live interval is new and
\* has the period of the current refresh interval; a window-state event
\* that reports the focus the window had, or no focus, calls nothing and
\* leaves the timer as it is.
C20_RefreshAndRestart ==
    [][/\ (\/ last'.op \in {"focus", "configChange", "configTouch"}
           \/ (settings' # settings /\ Listening)) =>
              /\ last'.began # "none"
              /\ Cardinality(InFlight(cycles')) <= Cardinality(InFlight(cycles)) + 1
              /\ refreshTimer' # 0
              /\ intervals' = TheInterval(refreshTimer', settings')
       /\ last'.op = "focus" <=> (~isWindowFocused /\ isWindowFocused')
       /\ (isWindowFocused' = isWindowFocused /\ last'.op = "focusSame") \/
          (~isWindowFocused' /\ last'.op = "blur") =>
              /\ last'.began = "none"
              /\ last'.sent = {}
              /\ cycles' = cycles
              /\ statusBarItem' = statusBarItem
              /\ intervals' = intervals
              /\ refreshTimer' = refreshTimer]_vars

\* the refresh interval was set below the floor: the listener began a fetch
\* and left one interval of the floor period
C20_Witness ==
    /\ last.op = "configChange"
    /\ settings.refreshInterval = <<ShortInterval>>
    /\ last.began = "fetch"
    /\ intervals = TheInterval(refreshTimer, settings)
    /\ \A t \in intervals : t.period = MinRefreshInterval * 1000

----------------------------------------------------------------------------
(***************************************************************************)
(* Claims about failures of the poller (checked under Spec).               *)
(***************************************************************************)
\* the answers to the id resolution that make getApiIdFromKey throw
ResolveFailures == {resp \in PollResolveResponses : ~GetApiIdFromKey(resp).ok}

----------------------------------------------------------------------------
(***************************************************************************)
(* Claims about deactivation.                                              *)
(***************************************************************************)
\* C22: in every state after deactivate() no refresh interval is live and
\* refreshTimer is undefined, no watch handle is open and fileWatcher is
\* undefined, no debounce timer is pending; no step taken after it is a
\* tick of the interval timer or a run of checkAndHandleConfigChange, and a
\* write of the credentials file sets no debounce timer.
C22_DeactivateStopsAll ==
    [][/\ phase'.pc = "deactivated" =>
              /\ refreshTimer' = 0
              /\ intervals' = {}
              /\ fileWatcher' = 0
              /\ handles' = {}
              /\ debounceTimer' = 0
              /\ timeouts' = {}
       /\ phase.pc = "deactivated" =>
              /\ last'.op \notin {"check", "timer", "timerSkipped"}
              /\ last'.checked = "none"]_vars

\* the credentials file was written after deactivate(), with a
\* reconciliation prompt still open: nothing is scheduled
C22_Witness ==
    /\ phase.pc = "deactivated"
    /\ last.op = "fileEvent"
    /\ Credentials(file) # Credentials(settings)
    /\ file.apiKey # <<>> /\ file.apiUrl # <<>>
    /\ timeouts = {}
    /\ handles = {}
    /\ intervals = {}
    /\ \E i \in DOMAIN checks : checks[i].pc = "prompt"

\* the steps a call of updateStats in flight takes when what it awaits
\* settles
CycleOps == {"resolved", "fetched", "waited"}

\* C23: a call of updateStats in flight when deactivate() ran is abandoned:
\* when what it awaits settles afterwards, the status bar keeps its content,
\* no error notification is shown and no call of updateStats begins.
C23_AbandonedAfterStop ==
    [][(phase.pc = "deactivated" /\ last'.op \in CycleOps) =>
          /\ statusBarItem' = statusBarItem
          /\ ~last'.notified
          /\ errorNotes' = errorNotes
          /\ last'.began = "none"]_vars

\* C23, the notification alone: no step of a call of updateStats taken
\* after deactivate() shows an error notification.
C23_NoNotificationAfterStop ==
    [][(phase.pc = "deactivated" /\ last'.op \in CycleOps) =>
          ~last'.notified]_vars

----------------------------------------------------------------------------
(***************************************************************************)
(* Claims about calls of updateStats side by side (checked under SpecRace). *)
(***************************************************************************)
\* the slots whose call of updateStats the step changed
Touched == {i \in DOMAIN cycles : cycles'[i] # cycles[i]}

\* C24: a manual refresh and a tick of the timer (window focused), with a
\* valid configuration, each begin their own call of updateStats at once,
\* whatever calls are in flight, and leave those as they are; a step of a
\* call in flight changes that call only; the step that ends a call writes
\* that call's outcome to the status bar (its payload, or the error
\* status), whichever call began last, so that when no call is left the
\* status bar shows what the call that ended last wrote; a step that ends
\* no call leaves the status bar as it is.
C24_NoQueueLastWriteWins ==
    [][/\ (last'.op \in {"command", "timer"} /\ ValidNow.valid) =>
              /\ last'.began = "fetch"
              /\ last'.sent = {"stats"}
              /\ InFlight(cycles) \subseteq InFlight(cycles')
              /\ Cardinality(InFlight(cycles')) = Cardinality(InFlight(cycles)) + 1
              /\ \A i \in InFlight(cycles) : cycles'[i] = cycles[i]
              /\ \A i \in Touched : cycles'[i].retry.nCalls = 1
       /\ last'.op \in CycleOps =>
              /\ Cardinality(Touched) = 1
              /\ \A i \in Touched : cycles[i] # NoCycle
              /\ IF last'.done = NoCycle
                 THEN statusBarItem' = statusBarItem
                 ELSE /\ \A i \in Touched : cycles'[i] = NoCycle
                      /\ last'.done.pc = "rendered" =>
                             /\ statusBarItem'.kind = "data"
                             /\ statusBarItem'.data = last'.done.retry.result
                      /\ last'.done.pc = "failed" =>
                             statusBarItem'.kind = "error"]_vars

\* the timer is live and two calls were in flight; the one that began
\* later has ended first and its payload is shown, the one that began
\* first is still awaiting its answer
C24_Witness ==
    /\ last.op = "fetched"
    /\ last.done # NoCycle
    /\ last.done.pc = "rendered"
    /\ last.done.joined
    /\ refreshTimer # 0
    /\ statusBarItem.kind = "data"
    /\ statusBarItem.data = last.done.retry.result
    /\ \E i \in DOMAIN cycles :
           /\ cycles[i].pc = "fetch"
           /\ ~cycles[i].joined
           /\ cycles[i].retry.pc = "call"

----------------------------------------------------------------------------
(***************************************************************************)
(* Claims about the refresh interval (checked under SpecTimer).            *)
(***************************************************************************)
\* the larger of the configured seconds and the floor, the default when
\* nothing is configured
EffectiveInterval(st) ==
    IF st.refreshInterval = <<>> THEN DefaultRefreshInterval
    ELSE IF st.refreshInterval[1] < MinRefreshInterval THEN MinRefreshInterval
    ELSE st.refreshInterval[1]

\* C27: getConfiguration returns as refresh interval the configured number
\* of seconds or 10, whichever is larger, and 60 when none is configured;
\* every live interval timer has a period of at least 10 000 ms, and its
\* period is 1000 times the refresh interval of the current settings.
C27_IntervalFloor ==
    /\ GetConfiguration(settings).refreshInterval = EffectiveInterval(settings)
    /\ EffectiveInterval(settings) >= MinRefreshInterval
    /\ settings.refreshInterval = <<>> =>
           EffectiveInterval(settings) = DefaultRefreshInterval
    /\ \A t \in intervals :
           /\ t.period >= MinRefreshInterval * 1000
           /\ t.period = EffectiveInterval(settings) * 1000

\* the refresh interval is set to a negative number of seconds and the
\* timer, restarted, has the floor period
C27_Witness ==
    /\ settings.refreshInterval # <<>>
    /\ settings.refreshInterval[1] < 0
    /\ last.op = "configChange"
    /\ refreshTimer # 0
    /\ intervals = {[id |-> refreshTimer, period |-> MinRefreshInterval * 1000]}

----------------------------------------------------------------------------
(***************************************************************************)
(* Claims about the remote calls (checked under SpecApi).                  *)
(***************************************************************************)
\* a response with HTTP status 200 whose data are present with success true
Accepted(resp) ==
    resp.net = "ok" /\ resp.status = 200 /\ resp.hasData /\ resp.success

\* C28: fetchRelayStats throws on every response that is not a 200 with
\* data and success true, and returns no payload then; it returns the
\* payload of every other response.  getApiIdFromKey throws on those
\* responses too and on a response without data.id, and returns no id
\* then; it returns the id of every other response.
C28_OnlySuccessReturns ==
    /\ (rs.pc = "request" /\ rs.stats # <<>>) =>
           /\ ~Accepted(rs.resp) =>
                  /\ ~rs.stats[1].ok
                  /\ rs.stats[1].payload = NoPayload
                  /\ rs.stats[1].err # NoError
           /\ Accepted(rs.resp) => rs.stats[1] = Returned(rs.resp.payload)
    /\ (rs.pc = "request" /\ rs.id # <<>>) =>
           /\ (~Accepted(rs.resp) \/ rs.resp.id = <<>>) =>
                  /\ ~rs.id[1].ok
                  /\ rs.id[1].id = <<>>
                  /\ rs.id[1].err # NoError
           /\ (Accepted(rs.resp) /\ rs.resp.id # <<>>) =>
                  rs.id[1] = IdReturned(rs.resp.id)

\* a response that axios accepts (a 2xx status other than 200) with data,
\* success true and an id: both calls threw
C28_Witness ==
    /\ rs.pc = "request"
    /\ rs.resp.net = "ok"
    /\ rs.resp.status > 200 /\ rs.resp.status < 300
    /\ rs.resp.hasData /\ rs.resp.success /\ rs.resp.id # <<>>
    /\ rs.stats # <<>> /\ ~rs.stats[1].ok
    /\ rs.id # <<>> /\ ~rs.id[1].ok

----------------------------------------------------------------------------
(***************************************************************************)
(* Claims about the debounce window and the reconciler's states (checked   *)
(* under SpecWatch and SpecPrompts).                                       *)
(***************************************************************************)
\* C29: every file event the watcher gets cancels the pending debounce
\* timer and sets a new one of 300 ms; checkAndHandleConfigChange runs only
\* when 300 ms have passed since the latest event, however long ago the
\* first event of the burst was; while less than 300 ms have passed since
\* the latest event no check has run since the burst began.
C29_WindowRestarts ==
    [][/\ (last'.op = "fileEvent" /\ fileWatcher # 0) =>
              /\ timeouts' = {[id |-> debounceTimer', left |-> DEBOUNCE_DELAY]}
              /\ burst'.quiet = 0
       /\ last'.op = "check" =>
              /\ burst.quiet >= DEBOUNCE_DELAY
              /\ burst'.quiet >= DEBOUNCE_DELAY
       /\ (burst'.n >= 1 /\ burst'.quiet < DEBOUNCE_DELAY) =>
              /\ burst'.checks = 0
              /\ last'.op # "check"]_vars

\* a stream of events longer than the window (each less than 300 ms after
\* the one before) was checked once, 300 ms after its last event
C29_Witness ==
    /\ last.op = "check"
    /\ burst.n = MaxBurstN
    /\ burst.span >= DEBOUNCE_DELAY
    /\ burst.quiet = DEBOUNCE_DELAY
    /\ burst.checks = 1
    /\ fileWatcher # 0

\* the checks whose reconciliation prompt is open
Prompting(ch) == {i \in DOMAIN ch : ch[i].pc = "prompt"}

\* the checks whose applyNewConfig has not returned
Applying(ch) == {i \in DOMAIN ch : ch[i].pc \in {"applyWrite", "applyResume"}}

\* C30: while a reconciliation prompt is open or new credentials are being
\* applied, a file event is not accepted (it sets no debounce timer) and no
\* run of checkAndHandleConfigChange starts; at most one prompt is open at
\* any time.
C30_OnePromptAtATime ==
    [][/\ (Prompting(checks) \cup Applying(checks) # {}) =>
              /\ last'.op = "fileEvent" =>
                     timeouts' = timeouts /\ debounceTimer' = debounceTimer
              /\ last'.op # "check"
       /\ Cardinality(Prompting(checks')) <= 1]_vars

\* C30, the prompts alone: at most one reconciliation prompt is open.
C30_AtMostOnePrompt == Cardinality(Prompting(checks)) <= 1

----------------------------------------------------------------------------
(***************************************************************************)
(* Claims about failures (checked under SpecFaults).                       *)
(***************************************************************************)
\* the steps that may call startWatching: activation, and the configuration
\* listener on a change of the watchClaudeSettings setting
StartSteps ==
    {"activate", "activateResume", "configChange", "configTouch"} \cup CycleOps

\* C25: no failure of the polling or the reconciliation path escapes.  A
\* call of updateStats that fails (the id resolution, the stats request
\* after its retries, or the rendering) ends in its catch block with the
\* error status in the status bar and an error notification; a call on an
\* invalid configuration ends with the configuration prompt in the status
\* bar; a run of checkAndHandleConfigChange whose read or comparison fails
\* returns without rejecting; a failed settings write of applyNewConfig ends
\* the reconciliation with an error notification, one of disableWatching
\* ends it silently, and neither rejects.
C25_FailuresAreCaught ==
    [][/\ (last'.done # NoCycle /\ last'.done.pc = "failed") =>
              /\ last'.op \in CycleOps
              /\ statusBarItem'.kind = "error"
              /\ last'.notified
              /\ errorNotes' > 0
       /\ last'.began = "invalid" => statusBarItem'.kind = "prompt"
       /\ last'.op = "check" => ~last'.rejected
       /\ last'.op = "applyFailed" =>
              /\ last'.shown = "error"
              /\ ~last'.rejected
              /\ \E i \in DOMAIN checks :
                     checks[i].pc = "applyWrite" /\ checks'[i] = NoCheck
       /\ last'.op = "disableFailed" =>
              /\ ~last'.rejected
              /\ \E i \in DOMAIN checks :
                     checks[i].pc = "disableWrite" /\ checks'[i] = NoCheck]_vars

\* a stats request was answered with data that cannot be rendered: the call
\* ended in the catch block, after the id had been resolved
C25_Witness ==
    /\ last.op = "fetched"
    /\ last.done # NoCycle
    /\ last.done.pc = "failed"
    /\ last.done.retry.pc = "returned"
    /\ last.done.retry.result = MalformedPayload
    /\ statusBarItem.kind = "error"
    /\ last.notified

\* C26: a failure of the file watching leaves the polling alone.  An
\* 'error' event of the watch handle and a failed run of
\* checkAndHandleConfigChange change neither the refresh timer, nor the
\* focus flag, nor the calls of updateStats in flight; a startWatching that
\* fails (the credentials file is missing, or fs.watch throws) changes no
\* focus flag, stops no timer, and leaves the timer as the step that called
\* it sets it: untouched, or restarted at the configured interval.
C26_WatchFailuresSparePolling ==
    [][/\ (last'.op = "watcherError"
           \/ (last'.op = "check" /\ last'.checked = "error")) =>
              /\ refreshTimer' = refreshTimer
              /\ intervals' = intervals
              /\ isWindowFocused' = isWindowFocused
              /\ cycles' = cycles
       /\ (last'.op \in StartSteps /\ last'.shown \in {"warning", "error"}) =>
              /\ isWindowFocused' = isWindowFocused
              /\ refreshTimer # 0 => refreshTimer' # 0
              /\ \/ refreshTimer' = refreshTimer /\ intervals' = intervals
                 \/ /\ refreshTimer' # 0
                    /\ intervals' = TheInterval(refreshTimer', settings')]_vars

\* the watch handle reported an error while the timer was running, the
\* window was out of focus and a call of updateStats was in flight
C26_Witness ==
    /\ last.op = "watcherError"
    /\ fileWatcher = 0
    /\ refreshTimer # 0
    /\ intervals # {}
    /\ ~isWindowFocused
    /\ \E i \in DOMAIN cycles : cycles[i] # NoCycle

\* a startWatching failed on a missing credentials file, shown as a
\* warning, in a step that left the refresh timer running
C26_StartFailureWitness ==
    /\ last.op \in StartSteps
    /\ last.shown = "warning"
    /\ ~file.exists
    /\ fileWatcher = 0
    /\ refreshTimer # 0
    /\ intervals = TheInterval(refreshTimer, settings)

----------------------------------------------------------------------------
(***************************************************************************)
(* Claims about the copies of the credentials file (checked under          *)
(* SpecReload).                                                            *)
(***************************************************************************)
\* a file with only one of apiKey / apiUrl
Partial(f) == f.exists /\ ((f.apiKey = <<>>) # (f.apiUrl = <<>>))

\* the steps in which a copy reads the file: activate() (through
\* initializeConfigFromClaudeSettings), a reconciliation check, the manual
\* reload of the tooltip, the reload command
CopySteps == {"activate", "activateInit", "check", "manualReload", "reloadCommand"}

\* the step begins no settings write and no dialog of a copy
NothingToWrite ==
    /\ phase'.pc = "actInit" => phase' = phase
    /\ checks' = checks
    /\ vc' = vc

\* C31: on every path that copies credentials from the credentials file
\* into the settings (startup initialisation, watcher reconciliation, manual
\* reload from the tooltip, the reload command) a file with only one of
\* apiKey / apiUrl is treated as no config: the copy ends where it read the
\* file, with no settings write begun.
C31_PartialFileIgnored ==
    [][(Partial(file) /\ last'.op \in CopySteps) => NothingToWrite]_vars

\* C31, the paths other than the reload command: a partial file is ignored
C31_OtherCopiesIgnorePartial ==
    [][(Partial(file) /\ last'.op \in CopySteps \ {"reloadCommand"}) =>
           NothingToWrite]_vars

\* C31, the settings: no write of the reload command is stored that came
\* from a file with only one of apiKey / apiUrl
C31_NoPartialWriteStored ==
    ~ /\ last.op = "reloadStored"
      /\ vc.pc = "resume"
      /\ (vc.apiKey = <<>>) # (vc.apiUrl = <<>>)
      /\ GetVSCodeConfig(settings).apiKey = vc.apiKey \/
             GetVSCodeConfig(settings).apiUrl = vc.apiUrl

\* C35: stopWatching cancels a pending debounce.  When stopWatching runs
\* (on deactivation, on an error of the watch handle, when the watcher is
\* disabled, or inside startWatching over an open handle) while file events
\* wait for their 300 ms window to elapse, the step leaves no timeout pending
\* and no debounce handle; and every run of checkAndHandleConfigChange
\* belongs to events the watcher got after the latest stopWatching.
C35_StopCancelsDebounce ==
    [][/\ last'.pending =>
              /\ timeouts # {}
              /\ timeouts' = {}
              /\ debounceTimer' = 0
              /\ burst'.n = 0
       /\ last'.op = "check" =>
              /\ burst.n >= 1
              /\ burst.quiet >= DEBOUNCE_DELAY]_vars

\* the watch handle reported an error 100 or 200 ms after a file event:
\* the pending timeout is gone
C35_Witness ==
    /\ last.op = "watcherError"
    /\ last.pending
    /\ timeouts = {}
    /\ debounceTimer = 0
    /\ fileWatcher = 0

\* no handler is between two of its steps: activate() has returned or not
\* begun, and no settings write of the reconciler awaits its resumption
AtRest ==
    /\ phase.pc \in {"new", "active", "deactivated"}
    /\ \A i \in DOMAIN checks : checks[i].pc \in {"free", "prompt"}

----------------------------------------------------------------------------
(***************************************************************************)
(* Claims about the status bar and the notifications of updateStats.       *)
(***************************************************************************)
\* C32: the error notification of a failed call of updateStats is shown on
\* the first failure only.  A call that fails while the status bar still
\* shows the error status of the call that failed before it (no call has
\* succeeded, begun its stats request or found the configuration invalid in
\* between) shows the error status and no second notification.
C32_NotifiedOnFirstFailureOnly ==
    [][(/\ last'.done # NoCycle
        /\ last'.done.pc = "failed"
        /\ statusBarItem.kind = "error") =>
           /\ statusBarItem'.kind = "error"
           /\ ~last'.notified]_vars

\* C33: whenever the status bar shows usage data or the error status (whose
\* tooltips say that a click on the status bar refreshes the data), the
\* command a click runs is the refresh command, also after a configuration
\* prompt was shown earlier.
C33_ClickRefreshes ==
    statusBarItem.kind \in {"data", "error"} =>
        statusBarItem.command = "refreshStats"

----------------------------------------------------------------------------
(***************************************************************************)
(* Claims about what a call of updateStats reads and writes.               *)
(***************************************************************************)
\* a call that read a non-blank apiId
HasApiId(c) == c.apiId # <<>> /\ Trim(c.apiId) # <<>>

\* C34: a configured apiId takes priority over the apiKey: a call of
\* updateStats that read a non-blank apiId makes no call of getApiIdFromKey,
\* also when it read an apiKey, and gives every fetchRelayStats call of its
\* retry loop the apiId it read, unchanged.
C34_ApiIdBeforeKey ==
    \A c \in CyclesSeen :
        HasApiId(c) =>
            /\ c.nResolve = 0
            /\ c.pc # "resolve"
            /\ c.actualApiId = c.apiId
            /\ c.retry # NoRetry
            /\ c.retry.apiId = c.apiId
            /\ c.retry.callIds \subseteq {c.apiId}

\* a call that read both an apiId and an apiKey rendered the answer to a
\* request made with the apiId
C34_Witness ==
    /\ last.done # NoCycle
    /\ last.done.pc = "rendered"
    /\ HasApiId(last.done)
    /\ last.done.apiKey = KeySk1
    /\ last.done.nResolve = 0
    /\ last.done.retry.callIds = {last.done.apiId}

\* the steps that are steps of updateStats and of nothing else: its call by
\* the timer, the refresh command or the retry button, and its resumptions
UpdateStatsSteps == {"timer", "command", "retryButton"} \cup CycleOps

\* C37: a call of updateStats only reads the configuration.  None of its
\* steps (on an invalid configuration, a failed resolution, a failed or a
\* successful stats request) changes the settings or the focus flag; none
\* changes the interval timer or the watcher, except the step that ends the
\* call activate() awaits, where activate() goes on to start them.  The id
\* resolved from an API key is not written to the settings: the next call
\* begins with the stats request only when the settings hold an apiId, and
\* resolves the id again otherwise.
C37_UpdateStatsOnlyReads ==
    [][/\ last'.op \in UpdateStatsSteps =>
              /\ settings' = settings
              /\ isWindowFocused' = isWindowFocused
              /\ phase' = phase =>
                     /\ refreshTimer' = refreshTimer
                     /\ intervals' = intervals
                     /\ fileWatcher' = fileWatcher
                     /\ handles' = handles
                     /\ debounceTimer' = debounceTimer
                     /\ timeouts' = timeouts
                     /\ checks' = checks
       /\ last'.began = "fetch" =>
              ~NeedsResolve(GetConfiguration(settings').apiId,
                            GetConfiguration(settings').apiKey)]_vars

\* the timer began a call with a resolution of the id while the status bar
\* showed the data an earlier call had rendered: the settings hold no apiId
C37_Witness ==
    /\ last.op = "timer"
    /\ last.began = "resolve"
    /\ statusBarItem.kind = "data"
    /\ settings.apiId = <<>>
    /\ settings.apiKey = KeySk1
    /\ refreshTimer # 0

----------------------------------------------------------------------------
(***************************************************************************)
(* Claims about termination (checked under SpecLive).                      *)
(***************************************************************************)
\* no call of updateStats is in flight
AllDone == \A i \in DOMAIN cycles : cycles[i] = NoCycle

\* C38: every call of updateStats terminates, given that each network call
\* settles and each backoff wait elapses: its retry loop makes at most
\* maxRetries requests, and every call in flight ends.  Once every call that
\* began has ended, the status bar shows usage data, the error status or a
\* configuration prompt, never the loading status, also when calls
\* overlapped.
C38_CyclesTerminate ==
    /\ [](\A c \in CyclesSeen :
              c.retry # NoRetry =>
                  /\ c.retry.maxRetries = DefaultMaxRetries
                  /\ c.retry.nCalls <= c.retry.maxRetries)
    /\ []((AllDone /\ phase.pc # "new") =>
              statusBarItem.kind \in {"data", "error", "prompt"})
    /\ \A i \in 1..RaceCycles : (cycles[i] # NoCycle) ~> (cycles[i] = NoCycle)

\* a call that began while another was in flight ended last, after
\* maxRetries failed requests: the status bar shows the error status
C38_Witness ==
    /\ AllDone
    /\ last.done # NoCycle
    /\ last.done.joined
    /\ last.done.pc = "failed"
    /\ last.done.retry.nCalls = DefaultMaxRetries
    /\ statusBarItem.kind = "error"

====
